---- MODULE Spec2Model ----
(***************************************************************************)
(* Verification model of the pinchot client runtime (joescan).             *)
(*                                                                         *)
(* The areas modelled, each with its own specification over the same       *)
(* variables:                                                              *)
(*   SpecSession  - ScanManager's {Disconnected, Connected, Scanning}      *)
(*                  state machine and the connect handshake                *)
(*   SpecQueue    - the per-head ring of completed profiles                *)
(*   SpecAsm      - the profile assembler (ProcessPacket) fed by a stream  *)
(*                  of datagrams                                           *)
(*   SpecWait,    - the receive thread, its Start/Stop and the blocking    *)
(*   SpecStop       WaitUntilAvailableProfiles, in both implementations    *)
(*                  found in the sources                                   *)
(*   SpecRestart  - the assembler under datagram loss and a restart of     *)
(*                  the receiver by StartScanning                          *)
(*   SpecLife     - the receive thread from construction to Shutdown,      *)
(*                  malformed datagrams included                           *)
(*   SpecSender   - jsScanSystemStartScanning / StopScanning with the      *)
(*                  sender's send and timer threads and its Shutdown       *)
(***************************************************************************)
EXTENDS Integers, Sequences, FiniteSets, TLC

(***************************************************************************)
(* Bounds of the model.                                                    *)
(***************************************************************************)
NumHeads == 2        \* serial numbers 1..NumHeads may be registered
MaxTimeoutS == 1     \* connect is called with timeout_s in 0..MaxTimeoutS
MaxTime == 2         \* wall clock (seconds) runs over 0..MaxTime
MaxConnects == 1     \* connect attempts that get as far as session_id++
MaxIfaces == 1       \* broadcast interfaces found by a connect attempt
HeadRoom == 2        \* SpecQueue starts empty or HeadRoom below capacity
MaxPush == 5         \* profiles pushed in a run of SpecQueue
MaxPops == 3         \* GetProfiles calls in a run
MaxPopCount == 3     \* GetProfiles is called with count in 1..MaxPopCount
MaxProfiles == 2     \* profiles in the stream a head sends
MaxFragments == 3    \* datagrams per profile (DataPacket num_parts)
MaxTimestamp == 2    \* profile timestamps run over 0..MaxTimestamp
MaxHeadId == 1       \* scan head ids run over 0..MaxHeadId
MaxControl == 3      \* receiver Start/Stop calls in a run of SpecWait
MaxWaits == 2        \* WaitUntilAvailableProfiles calls in a run
MaxWaitCount == 2    \* the wait is called with count in 1..MaxWaitCount
MaxTimeoutUs == 1    \* ... and timeout_us in 0..MaxTimeoutUs
HeadRateHz == 2      \* a head's status reports this max scan rate, or 4000
MaxEmits == 2        \* times the timer re-sends the cached scan requests
MaxStatus == 3       \* status datagrams a head sends in a run of SpecStatus
MaxImageCalls == 2   \* jsScanHeadGetCameraImage calls in a run
MaxConstraints == 2  \* a set-window message has 0..MaxConstraints constraints
MaxDataTypes == 7    \* data-type masks of a scan request run over 0..MaxDataTypes
MaxCols == 7         \* a profile spans 1..MaxCols camera columns
MaxStep == 2         \* a data type is sampled every 1..MaxStep columns
MaxEdge == 2         \* window edges run over 0..MaxEdge, in 1/2000 inch

(***************************************************************************)
(* Program constants.                                                      *)
(***************************************************************************)
kConnectPollMs == 100
API_VERSION_MAJOR == 2
JS_ERROR_INTERNAL == -1
JS_ERROR_VERSION_COMPATIBILITY == -8
kMaxCircularBufferSize == 1000
JS_ERROR_INVALID_ARGUMENT == -3
JS_ERROR_NOT_CONNECTED == -4
JS_ERROR_CONNECTED == -5
JS_ERROR_NOT_SCANNING == -6
JS_ERROR_SCANNING == -7
kMinLaserOnTimeUsec == 15
kMaxLaserOnTimeUsec == 650000
kMinCameraExposureUsec == 15
kMaxCameraExposureUsec == 2000000
JS50WX_NUM_CAMERAS == 2
kImageRateMax == 20      \* 2.0 Hz
kCommandMagic == 64206   \* 0xFACE
UdpPacketType_StartScanning == 2
UdpPacketType_SetWindow == 4
\* scan rates are in units of 0.1 Hz
kPinchotConstantMinScanRate == 2
kPinchotConstantMaxScanRate == 40000

Heads == 1..NumHeads

(* StatusMessage::GetMaxScanRate of a head, in units of 0.1 Hz.            *)
StatusMaxScanRates == {10 * HeadRateHz, kPinchotConstantMaxScanRate}

(* jsDataFormat: one profile format and the camera image.                  *)
DataFormats ==
  {"JS_DATA_FORMAT_XY_FULL_LM_FULL", "JS_DATA_FORMAT_CAMERA_IMAGE_FULL"}
Majors == {API_VERSION_MAJOR, API_VERSION_MAJOR + 1}

VARIABLES
  \* ---- ScanManager ----
  state,               \* SystemState
  scanners_by_serial,  \* set of registered serials
  scanners_by_id,      \* the map scanners_by_id: id -> serial of the head
  m_id,                \* the id each registered head was constructed with
  session_id,          \* uint8_t
  \* ---- per head: ScanHeadReceiver / ScanHeadShared ----
  rstate,              \* receiver state  RECEIVER_STOP / RECEIVER_START
  status_major,        \* status_message.version.major (0: default constructed)
  status_ts,           \* status_message_timestamp (seconds)
  ip_address,          \* IP recorded by SetIpAddress (0: none)
  \* ---- environment ----
  now,                 \* std::time(nullptr)
  \* ---- the connect call in progress (locals of Connect/BroadcastConnect) ----
  cpc,                 \* "idle", "read", "check", "sleep", "return"
  cur,                 \* head the poll loop is at
  msg_major,           \* local copy `msg` of the head's status
  msg_ts,              \* time at which the message copied into `msg` was stored
  bc_waves,            \* times this attempt has sent its BroadcastConnect messages
  time_start,
  timeout_ms,
  connected,           \* the map `connected`
  ifaces,              \* broadcast sockets currently open
  \* ---- result of the last call ----
  op,                  \* name of the last operation called
  exc,                 \* exception thrown by ScanManager ("none" if none)
  ret,                 \* value returned by the C API wrapper
  \* ---- ScanHeadSender ----
  scan_request_packets, \* heads with a cached scan request
  \* ---- one scan head's data plane (ScanHeadShared / ScanHead) ----
  impl,                \* which of the two implementations in the sources
                       \* runs: "Shared" (ScanHeadShared + ScanHeadReceiver)
                       \* or "ScanHead" (ScanHead.cpp)
  circ_buffer,         \* boost::circular_buffer of completed profiles
  produced,            \* PushProfile calls so far
  observed,            \* profiles handed to the consumer so far, in order
  pops,                \* GetProfiles calls made so far
  profile_ptr,         \* the profile being assembled, or NullProfile
  last_profile_source,
  last_profile_timestamp,
  packets_received_for_profile,
  crashed,             \* the process died on a null dereference
  stream,              \* the profiles the head sends: <<[source, timestamp]>>
  num_parts,           \* num_parts[i]: datagrams of that stream's profile i
  sidx,                \* index in stream of the profile now being sent
  unsent,              \* datagram positions of it not yet delivered
  recv_state,          \* ScanHeadReceiver::state / m_active_count
  rpc,                 \* position of the receive thread in ReceiveMain
  is_data_available_condition_enabled,
  ctl,                 \* Start/Stop calls made so far
  wpc,                 \* position of the consumer in WaitUntilAvailable...
  w_count,             \* its argument count
  deadline_passed,     \* timeout_us has elapsed since the wait was called
  elapsed_expired,     \* the consumer's local (elapsed >= timeout_us)
  w_ret,               \* value returned by the last wait
  waits,               \* wait calls made so far
  start_pc,            \* ScanManager::StartScanning at this head: "idle", or
                       \* "flushed" between Flush() and receiver->Start()
  shutdown_pc,         \* ScanHeadReceiver::Shutdown: "none", "join" (inside
                       \* receiver.join()), "done" (returned)
  \* ---- sockets, ScanHeadSender and the scan rate ----
  sockets,             \* heads whose receiver holds an open socket
  is_running,          \* ScanHeadSender::is_running
  is_scanning,         \* ScanHeadSender::is_scanning
  send_message,        \* the queue send_message: <<[dst, kind]>>
  sent,                \* datagrams handed to sendto() successfully, in order
  send_pc,             \* SendMain: "top", "lock", "waiting", "exited"
  timer_pc,            \* TimerMain: "loop", "exited"
  emitted,             \* times TimerMain has re-sent the cached requests
  sender_pc,           \* ScanHeadSender::Shutdown: "none", "join_sender",
                       \* "join_timer", "done"
  sockfd_open,         \* the sender's socket is open
  scan_rate_hz,        \* in units of 0.1 Hz
  scan_rate_hz_current_max,
  data_format,         \* format handed to the heads by SetRequestedDataFormat
  \* ---- one head's status snapshot and its reader ----
  m_status,            \* the stored StatusMessage: [major, max_scan_rate]
  status_in,           \* the message the receive thread is storing
  status_pc,           \* the receive thread inside the copy: "idle", "half"
  status_read,         \* the snapshot GetStatusMessage last returned
  stored,              \* every whole message stored so far
  status_count,        \* status datagrams received so far
  \* ---- jsScanHeadGetCameraImage at one head ----
  m_config,            \* the head's jsScanHeadConfiguration
  user_config,         \* the local user_config of the call
  img_pc,              \* "idle", or "wait" inside the AvailableProfiles loop
  img_ret,             \* value the last call returned
  img_calls,           \* calls made so far
  \* ---- the window and the alignment of one head ----
  m_window,            \* the head's ScanWindow: its edges in 1/2000 inch and
                       \* m_constraints, the constraints in 1/1000 inch
  m_alignment,         \* the AlignmentParams of the head's cameras
  set_ret,             \* value the last set window / set alignment returned
  \* ---- a command message and its serialisation ----
  ser_msg,             \* the message Serialize() was last called on
  ser_out,             \* the bytes it returned
  \* ---- the fragments of one profile ----
  layout_in,           \* header fields shared by the fragments of a profile
  layout_cols,         \* per datagram_position, the column indices written
  window_sent          \* constraints of the last set-window message built

sessionVars == <<state, scanners_by_serial, scanners_by_id, m_id, session_id, rstate, status_major,
                 status_ts, ip_address, now, cpc, cur, msg_major, msg_ts, bc_waves, time_start,
                 timeout_ms, connected, ifaces, op, exc, ret,
                 scan_request_packets>>

queueVars == <<circ_buffer, produced, observed, pops>>

asmVars == <<profile_ptr, last_profile_source, last_profile_timestamp,
             packets_received_for_profile, crashed>>

streamVars == <<stream, num_parts, sidx, unsent>>

recvVars == <<impl, recv_state, rpc, is_data_available_condition_enabled, ctl>>

waitVars == <<wpc, w_count, deadline_passed, elapsed_expired, w_ret, waits>>

lifeVars == <<start_pc, shutdown_pc>>

dataVars == <<queueVars, asmVars, streamVars, recvVars, waitVars, lifeVars>>

sendThreadVars == <<is_running, sent, send_pc, timer_pc, emitted, sender_pc,
                    sockfd_open>>

rateVars == <<scan_rate_hz, scan_rate_hz_current_max, data_format>>

senderVars == <<sockets, is_scanning, send_message, sendThreadVars, rateVars>>

statusVars == <<m_status, status_in, status_pc, status_read, stored,
                status_count>>

imageVars == <<m_config, user_config, img_pc, img_ret, img_calls, m_window,
               m_alignment, set_ret>>

serVars == <<ser_msg, ser_out, layout_in, layout_cols, window_sent>>

apiVars == <<statusVars, imageVars, serVars>>

vars == <<sessionVars, dataVars, senderVars, apiVars>>

(***************************************************************************)
(* ScanManager: state predicates                                           *)
(***************************************************************************)
IsConnected == state = "Connected"

IsScanning == state = "Scanning"

(* The datagrams of one kind for the heads in S, in map order, as           *)
(* ScanHeadSendMessage(ip_address, datagram).                              *)
ToHeads(S, kind) ==
  LET all == [h \in 1..NumHeads |->
                [head |-> h, dst |-> ip_address[h], kind |-> kind]]
      InS(m) == m.head \in S
  IN  SelectSeq(all, InS)

StateErrors == {"Already connected.", "Already scanning.", "Not connected.",
                "Can not disconnect wile still scanning", "Not scanning."}

(***************************************************************************)
(* VersionParser::AreVersionsCompatible                                    *)
(***************************************************************************)
AreVersionsCompatible_NoCheck(v1, v2) == TRUE

AreVersionsCompatible(v1, v2) == v1 = v2

(* iteration order of std::map over the registered serials *)
FirstHead == CHOOSE h \in scanners_by_serial : \A g \in scanners_by_serial : h <= g

HasNext(h) == \E g \in scanners_by_serial : g > h

NextHead(h) == CHOOSE g \in scanners_by_serial :
                  g > h /\ \A k \in scanners_by_serial : k > h => g <= k

(***************************************************************************)
(* ScanManager::CreateScanner                                              *)
(***************************************************************************)
(* std::map::erase(k) and operator[] on a map held as a function.          *)


(* The exception CreateScanner throws, "none" if none.                     *)
CreateScanner_throws_NoIdCheck(serial, id) ==
  IF IsScanning THEN "Can not add scanner while scanning."
  ELSE IF serial \in scanners_by_serial THEN "Scanner is already managed."
  ELSE "none"

CreateScanner_throws(serial, id) ==
  IF IsScanning THEN "Can not add scanner while scanning."
  ELSE IF serial \in scanners_by_serial THEN "Scanner is already managed."
  ELSE IF id \in DOMAIN scanners_by_id
    THEN "Id is already assigned to another scanner."
  ELSE "none"

CreateScanner(serial, id) ==
  /\ UNCHANGED <<dataVars, apiVars, is_scanning, send_message, sendThreadVars, rateVars>>
  /\ cpc = "idle"
  /\ op' = "CreateScanner"
  /\ exc' = CreateScanner_throws(serial, id)
  /\ IF exc' # "none"
       THEN UNCHANGED <<scanners_by_serial, scanners_by_id, m_id, sockets>>
       ELSE /\ scanners_by_serial' = scanners_by_serial \cup {serial}
            /\ m_id' = [h \in DOMAIN m_id \cup {serial} |->
                         IF h = serial THEN id ELSE m_id[h]]
            /\ scanners_by_id' = [i \in DOMAIN scanners_by_id \cup {id} |->
                                   IF i = id THEN serial ELSE scanners_by_id[i]]
               \* new ScanHeadReceiver: InitRecvSocket, thread started
            /\ sockets' = sockets \cup {serial}
  /\ UNCHANGED <<state, session_id, rstate, status_major, status_ts,
                 ip_address, now, cur, cpc, msg_major, msg_ts, bc_waves,
                 time_start, timeout_ms, connected, ifaces, ret,
                 scan_request_packets>>

(***************************************************************************)
(* jsScanSystemCreateScanHead: CreateScanner is called only if the system  *)
(* is not connected; any exception gives nullptr.  The value is the        *)
(* handle returned: the serial of the new head, 0 for nullptr.             *)
(***************************************************************************)
jsScanSystemCreateScanHead_calls_Always == TRUE

jsScanSystemCreateScanHead_calls == ~IsConnected

jsScanSystemCreateScanHead_ret(serial, id) ==
  IF jsScanSystemCreateScanHead_calls /\ CreateScanner_throws(serial, id) = "none"
    THEN serial ELSE 0

jsScanSystemCreateScanHead(serial, id) ==
  IF jsScanSystemCreateScanHead_calls
    THEN CreateScanner(serial, id)
    ELSE /\ cpc = "idle"
         /\ op' = "CreateScanner"
         /\ exc' = "none"
         /\ UNCHANGED <<state, scanners_by_serial, scanners_by_id, m_id,
                        session_id, rstate, status_major, status_ts,
                        ip_address, now, cur, cpc, msg_major, msg_ts,
                        bc_waves, time_start, timeout_ms, connected, ifaces,
                        ret, scan_request_packets>>
         /\ UNCHANGED <<dataVars, apiVars, senderVars>>

(***************************************************************************)
(* ScanManager::RemoveScanner(serial_number).  The serial is erased from   *)
(* scanners_by_serial before the id is looked up in scanners_by_id.        *)
(***************************************************************************)
RemoveScanner_throws(serial) ==
  IF IsScanning THEN "Can not remove scanner while scanning"
  ELSE IF serial \notin scanners_by_serial THEN "Scanner is not managed."
  ELSE IF m_id[serial] \notin DOMAIN scanners_by_id
    THEN "Scanner ID was not found."
  ELSE "none"

RemoveScanner(serial) ==
  /\ cpc = "idle"
  /\ op' = "RemoveScanner"
  /\ exc' = RemoveScanner_throws(serial)
  /\ IF IsScanning \/ serial \notin scanners_by_serial
       THEN UNCHANGED <<scanners_by_serial, scanners_by_id, m_id>>
       ELSE /\ scanners_by_serial' = scanners_by_serial \ {serial}
            /\ m_id' = [h \in DOMAIN m_id \ {serial} |-> m_id[h]]
            /\ scanners_by_id' = [i \in DOMAIN scanners_by_id \ {m_id[serial]} |->
                                   scanners_by_id[i]]
  /\ UNCHANGED <<state, session_id, rstate, status_major, status_ts,
                 ip_address, now, cur, cpc, msg_major, msg_ts, bc_waves,
                 time_start, timeout_ms, connected, ifaces, ret,
                 scan_request_packets>>
  /\ UNCHANGED <<dataVars, apiVars, senderVars>>

(***************************************************************************)
(* jsScanSystemConnect -> ScanManager::Connect, up to the entry of the     *)
(* poll loop of BroadcastConnect (STEP 1 and STEP 2 included).             *)
(*   bad : first head, in map order, whose ValidateConfig() fails (0: none)*)
(*   n   : broadcast sockets InitBroadcastSocket manages to open           *)
(***************************************************************************)
Connect_throws ==
  IF IsConnected THEN "Already connected."
  ELSE IF IsScanning THEN "Already scanning."
  ELSE "none"

(* C API: catch (VersionCompatibilityException) / catch (std::exception) *)
jsScanSystemConnect_ret(e, conn) ==
  IF e = "VersionCompatibilityException" THEN JS_ERROR_VERSION_COMPATIBILITY
  ELSE IF e # "none" THEN JS_ERROR_INTERNAL
  ELSE Cardinality(conn)

jsScanSystemConnect(timeout_s, bad, n) ==
  /\ UNCHANGED <<dataVars, apiVars, senderVars>>
  /\ cpc = "idle"
  /\ op' = "Connect"
  /\ LET e == Connect_throws IN
     IF e # "none"
       THEN /\ exc' = e
            /\ ret' = jsScanSystemConnect_ret(e, {})
            /\ UNCHANGED <<state, session_id, rstate, cpc, cur, time_start,
                           timeout_ms, connected, ifaces, bc_waves>>
     ELSE IF scanners_by_serial = {}
       THEN /\ exc' = "none"
            /\ connected' = {}
            /\ ret' = jsScanSystemConnect_ret("none", {})
            /\ UNCHANGED <<state, session_id, rstate, cpc, cur, time_start,
                           timeout_ms, ifaces, bc_waves>>
     ELSE IF bad \in scanners_by_serial
       THEN \* receivers of the heads before `bad` have been started
            /\ rstate' = [h \in Heads |->
                            IF h \in scanners_by_serial /\ h < bad
                              THEN "RECEIVER_START" ELSE rstate[h]]
            /\ exc' = "Configuration validation failed"
            /\ connected' = {}
            /\ ret' = jsScanSystemConnect_ret("Configuration validation failed", {})
            /\ UNCHANGED <<state, session_id, cpc, cur, time_start,
                           timeout_ms, ifaces, bc_waves>>
     ELSE /\ session_id < 1 + MaxConnects
          /\ rstate' = [h \in Heads |->
                          IF h \in scanners_by_serial
                            THEN "RECEIVER_START" ELSE rstate[h]]
          /\ session_id' = (session_id + 1) % 256
          /\ connected' = {}
          /\ IF n = 0
               THEN /\ exc' = "No valid broadcast interfaces"
                    /\ ret' = jsScanSystemConnect_ret("No valid broadcast interfaces", {})
                    /\ UNCHANGED <<state, cpc, cur, time_start, timeout_ms,
                                   ifaces, bc_waves>>
             ELSE /\ ifaces' = n
                  /\ bc_waves' = 1              \* STEP 2, once
                  /\ time_start' = now
                  /\ timeout_ms' = timeout_s * 1000  \* int32_t; no overflow for timeout_s <= MaxTimeoutS
                  /\ exc' = "none"
                  /\ cur' = FirstHead
                  /\ cpc' = IF 0 < timeout_ms' THEN "read" ELSE "return"
                  /\ UNCHANGED <<state, ret>>
  /\ UNCHANGED <<scanners_by_serial, scanners_by_id, m_id, status_major, status_ts, ip_address, now,
                 msg_major, msg_ts, scan_request_packets>>

(***************************************************************************)
(* BroadcastConnect STEP 3, one head of one poll wave:                     *)
(*   StatusMessage msg = scan_head->GetStatusMessage();                    *)
(***************************************************************************)
BroadcastConnect_ReadStatus ==
  /\ UNCHANGED <<dataVars, apiVars, senderVars>>
  /\ cpc = "read"
  /\ msg_major' = status_major[cur]
  /\ msg_ts' = status_ts[cur]
  /\ cpc' = "check"
  /\ UNCHANGED bc_waves
  /\ UNCHANGED <<state, scanners_by_serial, scanners_by_id, m_id, session_id, rstate, status_major,
                 status_ts, ip_address, now, cur, time_start, timeout_ms,
                 connected, ifaces, op, exc, ret, scan_request_packets>>

(***************************************************************************)
(*   timestamp = ...GetStatusMessageTimestamp(); the freshness test, the   *)
(*   version check, SetIpAddress and connected[serial] = scan_head; then   *)
(*   the next head, or the end of the wave.                                *)
(***************************************************************************)
IsFresh(h) == h \notin connected /\ status_ts[h] > time_start

BroadcastConnect_CheckStatus ==
  /\ UNCHANGED <<dataVars, apiVars, senderVars>>
  /\ cpc = "check"
  /\ IF IsFresh(cur) /\ ~AreVersionsCompatible(API_VERSION_MAJOR, msg_major)
       THEN \* throw VersionCompatibilityException: unwinds through Connect
            \* to the catch clause of jsScanSystemConnect
            /\ exc' = "VersionCompatibilityException"
            /\ ret' = jsScanSystemConnect_ret("VersionCompatibilityException",
                                              connected)
            /\ cpc' = "idle"
            /\ UNCHANGED <<connected, ip_address, cur, timeout_ms>>
     ELSE /\ IF IsFresh(cur)
               THEN /\ connected' = connected \cup {cur}
                    /\ ip_address' = [ip_address EXCEPT ![cur] = cur]
               ELSE UNCHANGED <<connected, ip_address>>
          /\ IF HasNext(cur)
               THEN /\ cur' = NextHead(cur)
                    /\ cpc' = "read"
                    /\ UNCHANGED timeout_ms
             ELSE IF Cardinality(connected') # Cardinality(scanners_by_serial)
               THEN /\ cpc' = "sleep"
                    /\ UNCHANGED <<cur, timeout_ms>>
             ELSE \* is_connected = true
                  /\ cpc' = "return"
                  /\ UNCHANGED <<cur, timeout_ms>>
          /\ UNCHANGED <<exc, ret>>
  /\ msg_ts' = 0      \* the copy's time of storage is of no use past the check
  /\ UNCHANGED <<state, scanners_by_serial, scanners_by_id, m_id, session_id,
                 rstate, status_major, status_ts, now, msg_major, bc_waves,
                 time_start, ifaces, op, scan_request_packets>>

(***************************************************************************)
(*   sleep_for(kConnectPollMs); timeout_ms -= kConnectPollMs; and the      *)
(*   loop condition (false == is_connected) && (0 < timeout_ms)            *)
(***************************************************************************)
BroadcastConnect_Sleep ==
  /\ UNCHANGED <<dataVars, apiVars, senderVars>>
  /\ cpc = "sleep"
  /\ timeout_ms' = timeout_ms - kConnectPollMs
  /\ IF 0 < timeout_ms'
       THEN cpc' = "read" /\ cur' = FirstHead
       ELSE cpc' = "return" /\ UNCHANGED cur
  /\ UNCHANGED <<state, scanners_by_serial, scanners_by_id, m_id, session_id, rstate, status_major,
                 status_ts, ip_address, now, msg_major, msg_ts, bc_waves, time_start, connected,
                 ifaces, op, exc, ret, scan_request_packets>>

(***************************************************************************)
(* BroadcastConnect STEP 4 (close the sockets, return) and the rest of     *)
(* Connect: the state change when connected.size() equals the number of    *)
(* registered heads; jsScanSystemConnect returns connected.size().         *)
(***************************************************************************)
AllConnected_Any(conn, registered) == Cardinality(conn) >= 1

AllConnected(conn, registered) == Cardinality(conn) = Cardinality(registered)

Connect_Return ==
  /\ UNCHANGED <<dataVars, apiVars, sockets, sendThreadVars, scan_rate_hz, data_format>>
  /\ cpc = "return"
  /\ ifaces' = 0
  /\ state' = IF AllConnected(connected, scanners_by_serial)
                THEN "Connected" ELSE state
     \* once Connected: sender.Start(), the window of each head is sent,
     \* and the maximum rate is lowered to the smallest one the heads'
     \* status messages report
  /\ IF state' = "Connected"
       THEN /\ is_scanning' = TRUE
            /\ send_message' =
                 send_message \o ToHeads(scanners_by_serial, "Window")
            /\ \E rate_hz \in StatusMaxScanRates :
                 scan_rate_hz_current_max' =
                   IF rate_hz < scan_rate_hz_current_max
                     THEN rate_hz ELSE scan_rate_hz_current_max
       ELSE UNCHANGED <<is_scanning, send_message, scan_rate_hz_current_max>>
  /\ ret' = jsScanSystemConnect_ret("none", connected)
  /\ cpc' = "idle"
  /\ UNCHANGED <<scanners_by_serial, scanners_by_id, m_id, session_id, rstate, status_major,
                 status_ts, ip_address, now, cur, msg_major, msg_ts, bc_waves, time_start,
                 timeout_ms, connected, op, exc, scan_request_packets>>

(***************************************************************************)
(* ScanManager::Disconnect                                                 *)
(***************************************************************************)
Disconnect_throws_OnlyScanning ==
  IF IsScanning THEN "Can not disconnect wile still scanning" ELSE "none"

Disconnect_throws ==
  IF ~IsConnected THEN "Not connected."
  ELSE IF IsScanning THEN "Can not disconnect wile still scanning"
  ELSE "none"

Disconnect ==
  /\ UNCHANGED <<dataVars, apiVars, sockets, sendThreadVars, rateVars>>
  /\ cpc = "idle"
  /\ op' = "Disconnect"
  /\ exc' = Disconnect_throws
  /\ IF exc' = "none"
       THEN \* per head: sender.Send(DisconnectMessage), receiver->Stop();
            \* then sender.Stop().  No socket is closed.
            /\ send_message' =
                 send_message \o ToHeads(scanners_by_serial, "Disconnect")
            /\ rstate' = [h \in Heads |->
                            IF h \in scanners_by_serial
                              THEN "RECEIVER_STOP" ELSE rstate[h]]
            /\ is_scanning' = FALSE
            /\ state' = "Disconnected"
       ELSE UNCHANGED <<rstate, state, send_message, is_scanning>>
  /\ UNCHANGED <<scanners_by_serial, scanners_by_id, m_id, session_id, status_major, status_ts,
                 ip_address, now, cpc, cur, msg_major, msg_ts, bc_waves, time_start, timeout_ms,
                 connected, ifaces, ret, scan_request_packets>>

(***************************************************************************)
(* ScanManager::StartScanning                                              *)
(***************************************************************************)
StartScanning_throws_OnlyScanning ==
  IF IsScanning THEN "Already scanning." ELSE "none"

StartScanning_throws ==
  IF ~IsConnected THEN "Not connected."
  ELSE IF IsScanning THEN "Already scanning."
  ELSE "none"

StartScanning ==
  /\ UNCHANGED <<dataVars, apiVars, senderVars>>
  /\ cpc = "idle"
  /\ op' = "StartScanning"
  /\ exc' = StartScanning_throws
  /\ IF exc' = "none"
       THEN /\ rstate' = [h \in Heads |->
                            IF h \in scanners_by_serial
                              THEN "RECEIVER_START" ELSE rstate[h]]
            /\ scan_request_packets' = scanners_by_serial
            /\ state' = "Scanning"
       ELSE UNCHANGED <<rstate, scan_request_packets, state>>
  /\ UNCHANGED <<scanners_by_serial, scanners_by_id, m_id, session_id, status_major, status_ts,
                 ip_address, now, cpc, cur, msg_major, msg_ts, bc_waves, time_start, timeout_ms,
                 connected, ifaces, ret>>

(***************************************************************************)
(* ScanManager::StopScanning                                               *)
(***************************************************************************)
StopScanning_throws == IF ~IsScanning THEN "Not scanning." ELSE "none"

(* ScanHeadSender::ClearScanRequests: the vector after the call.           *)
ClearScanRequests_Keep == scan_request_packets

ClearScanRequests == {}

StopScanning ==
  /\ UNCHANGED <<dataVars, apiVars, senderVars>>
  /\ cpc = "idle"
  /\ op' = "StopScanning"
  /\ exc' = StopScanning_throws
  /\ IF exc' = "none"
       THEN /\ scan_request_packets' = ClearScanRequests
            /\ state' = "Connected"
       ELSE UNCHANGED <<scan_request_packets, state>>
  /\ UNCHANGED <<scanners_by_serial, scanners_by_id, m_id, session_id, rstate, status_major,
                 status_ts, ip_address, now, cpc, cur, msg_major, msg_ts, bc_waves, time_start,
                 timeout_ms, connected, ifaces, ret>>

(***************************************************************************)
(* ScanHeadReceiver::ReceiveMain, a status datagram (kResponseMagic):      *)
(* ScanHeadShared::SetStatusMessage stores it with the time of arrival.    *)
(***************************************************************************)
SetStatusMessage(h, major) ==
  /\ UNCHANGED <<dataVars, apiVars, senderVars>>
  /\ rstate[h] = "RECEIVER_START"
  /\ status_major' = [status_major EXCEPT ![h] = major]
  /\ status_ts' = [status_ts EXCEPT ![h] = now]
  /\ UNCHANGED <<state, scanners_by_serial, scanners_by_id, m_id, session_id, rstate, ip_address,
                 now, cpc, cur, msg_major, msg_ts, bc_waves, time_start, timeout_ms, connected,
                 ifaces, op, exc, ret, scan_request_packets>>

(* the wall clock advances by a second *)
Tick ==
  /\ UNCHANGED <<dataVars, apiVars, senderVars>>
  /\ now < MaxTime
  /\ now' = now + 1
  /\ UNCHANGED <<state, scanners_by_serial, scanners_by_id, m_id, session_id, rstate, status_major,
                 status_ts, ip_address, cpc, cur, msg_major, msg_ts, bc_waves, time_start,
                 timeout_ms, connected, ifaces, op, exc, ret,
                 scan_request_packets>>

(***************************************************************************)
(* One scan head's data plane.                                             *)
(*                                                                         *)
(* The sources hold two implementations of it: ScanHeadReceiver with       *)
(* ScanHeadShared (impl = "Shared") and ScanHead (impl = "ScanHead").      *)
(* They share the ring, the assembler and the receive loop and differ in   *)
(* the condition variables and in WaitUntilAvailableProfiles.              *)
(*                                                                         *)
(* Every access to the ring and to the assembler's fields is made with     *)
(* the head's mutex held, so each operation below is one atomic step,      *)
(* except where the code reads without the lock.                           *)
(***************************************************************************)
Impls == {"Shared", "ScanHead"}

Min(a, b) == IF a < b THEN a ELSE b

(* nullptr in a std::shared_ptr<Profile>.                                  *)
NullProfile ==
  [source |-> -1, timestamp |-> -1, received |-> 0, expected |-> 0,
   parts |-> {}]

(* circ_buffer is constructed with capacity kMaxCircularBufferSize;        *)
(* boost::circular_buffer::push_back on a full buffer overwrites the       *)
(* oldest element.                                                         *)
push_back_Unbounded(buf, p) == Append(buf, p)

push_back_DropNewest(buf, p) ==
  IF Len(buf) = kMaxCircularBufferSize THEN buf ELSE Append(buf, p)

push_back(buf, p) ==
  IF Len(buf) = kMaxCircularBufferSize
    THEN Append(Tail(buf), p)
    ELSE Append(buf, p)

(* k times front() followed by pop_front().                                *)
pop_front_NoRemove(buf, k) == buf

pop_front(buf, k) == SubSeq(buf, k + 1, Len(buf))

(* notify_all on the condition variable the consumer waits on.             *)
Notified(w) == IF w = "blocked" THEN "woken" ELSE w

(* notify_all on the condition variable the receive thread parks on.       *)
Unparked(r) == IF r = "parked" THEN "top" ELSE r

(* A complete profile synthesized with timestamp ts.                       *)
NewProfile(ts) ==
  [source |-> 0, timestamp |-> ts, received |-> 1, expected |-> 1,
   parts |-> {0}]

(* PushProfile: push_back under the mutex, then notify_all.                *)
PushProfile ==
  /\ ~crashed /\ produced < kMaxCircularBufferSize - HeadRoom + MaxPush
  /\ produced' = produced + 1
  /\ circ_buffer' = push_back(circ_buffer, NewProfile(produced + 1))
  /\ wpc' = Notified(wpc)
  /\ UNCHANGED <<observed, pops>>
  /\ UNCHANGED <<w_count, deadline_passed, elapsed_expired, w_ret, waits>>
  /\ UNCHANGED <<asmVars, streamVars, recvVars, sessionVars, senderVars, apiVars, lifeVars>>

(* PopProfiles / GetProfiles(count): under the mutex, while the buffer is  *)
(* not empty and count > 0, take front() and pop_front().                  *)
GetProfiles(count) ==
  /\ ~crashed /\ pops < MaxPops
  /\ pops' = pops + 1
  /\ LET k == Min(count, Len(circ_buffer)) IN
       /\ observed' = observed \o SubSeq(circ_buffer, 1, k)
       /\ circ_buffer' = pop_front(circ_buffer, k)
  /\ UNCHANGED produced
  /\ UNCHANGED <<asmVars, streamVars, recvVars, waitVars, sessionVars, senderVars, apiVars, lifeVars>>

(***************************************************************************)
(* The assembler.                                                          *)
(***************************************************************************)
(* DataPacket::GetSourceId.                                                *)
GetSourceId(scan_head_id, camera_id, laser_id) ==
  scan_head_id * 65536 + camera_id * 256 + laser_id

(* std::make_shared<Profile>(packet).                                      *)
MakeProfile(pkt) ==
  [source |-> pkt.source, timestamp |-> pkt.timestamp, received |-> 0,
   expected |-> 0, parts |-> {}]

(* Profile::SetUDPPacketInfo.                                              *)
SetUDPPacketInfo(p, rcvd, exp) ==
  [p EXCEPT !.received = rcvd, !.expected = exp]

(* ProcessPacket, as a function of the packet and the assembler's fields.  *)
(* The result names the new ring and fields, the number of PushProfile     *)
(* calls made, and whether a null profile_ptr was dereferenced.  Where it  *)
(* was, the fields are those of an execution in which the access had no    *)
(* effect.                                                                 *)
ProcessPacketResult(pkt) ==
  LET isNew == \/ pkt.source # last_profile_source
               \/ pkt.timestamp # last_profile_timestamp
      partial == isNew /\ profile_ptr # NullProfile
      buf1 == IF partial
                THEN push_back(circ_buffer,
                       SetUDPPacketInfo(profile_ptr,
                                        packets_received_for_profile,
                                        pkt.num_parts))
                ELSE circ_buffer
      ptr1 == IF isNew THEN MakeProfile(pkt) ELSE profile_ptr
      cnt1 == IF isNew THEN 0 ELSE packets_received_for_profile
      ptr2 == IF pkt.valid /\ ptr1 # NullProfile
                THEN [ptr1 EXCEPT !.parts = @ \cup {pkt.part_num}]
                ELSE ptr1
      cnt2 == cnt1 + 1    \* uint32_t; num_parts is reached long before a wrap
      done == cnt2 = pkt.num_parts
      buf2 == IF done
                THEN push_back(buf1,
                       IF ptr2 = NullProfile
                         THEN NullProfile
                         ELSE SetUDPPacketInfo(ptr2, pkt.num_parts,
                                               pkt.num_parts))
                ELSE buf1
  IN  [buf |-> buf2,
       ptr |-> IF done THEN NullProfile ELSE ptr2,
       cnt |-> cnt2,
       src |-> IF isNew THEN pkt.source ELSE last_profile_source,
       ts |-> IF isNew THEN pkt.timestamp ELSE last_profile_timestamp,
       pushes |-> (IF partial THEN 1 ELSE 0) + (IF done THEN 1 ELSE 0),
       nullDeref |-> \/ pkt.valid /\ ptr1 = NullProfile
                     \/ done /\ ptr2 = NullProfile]

(* The datagram of the stream's current profile with position part.        *)
StreamPacket(part, valid) ==
  [source |-> stream[sidx].source, timestamp |-> stream[sidx].timestamp,
   num_parts |-> num_parts[sidx], part_num |-> part, valid |-> valid]

StreamDone == sidx > Len(stream)

(* The datagrams of the stream's profile i that are yet to arrive, before  *)
(* any of them did.                                                        *)
AllParts(i) == IF i > Len(stream) THEN {} ELSE 0..(num_parts[i] - 1)

(***************************************************************************)
(* The receive thread (ReceiveMain) and its control.                       *)
(*                                                                         *)
(* rpc: "top"      about to read the state at the head of the loop         *)
(*      "disable"  Shared only: read STOP, about to call                   *)
(*                 DisableWaitUntilAvailable                               *)
(*      "lockwait" about to take the lock and wait on the condition        *)
(*      "parked"   inside the condition wait                               *)
(*      "select"   inside select() on the socket                           *)
(*      "exited"   read SHUTDOWN (m_active_count < 0): ReceiveMain returned *)
(*                                                                         *)
(* In "Shared" the thread parks on ScanHeadReceiver::sync and consumers    *)
(* wait on ScanHeadShared::data_available; in "ScanHead" both use          *)
(* m_thread_sync.                                                          *)
(***************************************************************************)
ReceiveMain_Top ==
  /\ ~crashed /\ rpc = "top"
  /\ rpc' = IF recv_state = "RECEIVER_SHUTDOWN" THEN "exited"
            ELSE IF recv_state = "RECEIVER_STOP"
              THEN (IF impl = "Shared" THEN "disable" ELSE "lockwait")
              ELSE "select"
  /\ UNCHANGED <<impl, recv_state, is_data_available_condition_enabled, ctl>>
  /\ UNCHANGED <<queueVars, asmVars, streamVars, waitVars, sessionVars, senderVars, apiVars, lifeVars>>

(* ScanHeadShared::DisableWaitUntilAvailable, called by the thread.        *)
DisableWaitUntilAvailable ==
  /\ ~crashed /\ rpc = "disable"
  /\ is_data_available_condition_enabled' = FALSE
  /\ wpc' = Notified(wpc)
  /\ rpc' = "lockwait"
  /\ UNCHANGED <<impl, recv_state, ctl>>
  /\ UNCHANGED <<w_count, deadline_passed, elapsed_expired, w_ret, waits>>
  /\ UNCHANGED <<queueVars, asmVars, streamVars, sessionVars, senderVars, apiVars, lifeVars>>

(* Shared: unique_lock lck(lock); sync.wait(lck).                          *)
(* ScanHead: unique_lock lock(m_mutex); flag = false; notify_all; wait.    *)
ReceiveMain_Park ==
  /\ ~crashed /\ rpc = "lockwait"
  /\ rpc' = "parked"
  /\ IF impl = "ScanHead"
       THEN /\ is_data_available_condition_enabled' = FALSE
            /\ wpc' = Notified(wpc)
       ELSE UNCHANGED <<is_data_available_condition_enabled, wpc>>
  /\ UNCHANGED <<impl, recv_state, ctl>>
  /\ UNCHANGED <<w_count, deadline_passed, elapsed_expired, w_ret, waits>>
  /\ UNCHANGED <<queueVars, asmVars, streamVars, sessionVars, senderVars, apiVars, lifeVars>>

(* A condition wait may return without a notification.                     *)
ReceiveMain_SpuriousWake ==
  /\ ~crashed /\ rpc = "parked"
  /\ rpc' = "top"
  /\ UNCHANGED <<impl, recv_state, is_data_available_condition_enabled, ctl>>
  /\ UNCHANGED <<queueVars, asmVars, streamVars, waitVars, sessionVars, senderVars, apiVars, lifeVars>>

(* select() returns 0 after its one second.                                *)
ReceiveMain_SelectTimeout ==
  /\ ~crashed /\ rpc = "select"
  /\ rpc' = "top"
  /\ UNCHANGED <<impl, recv_state, is_data_available_condition_enabled, ctl>>
  /\ UNCHANGED <<queueVars, asmVars, streamVars, waitVars, sessionVars, senderVars, apiVars, lifeVars>>

(* select() reports a datagram, recv reads a data packet of the stream;    *)
(* it is processed if the state still is START.  Dereferencing a null      *)
(* profile_ptr is undefined: the process dies (fault) or runs on as if     *)
(* the access had not been made.                                           *)
ReceiveMain_Data(part, valid, fault) ==
  /\ ~crashed /\ rpc = "select"
  /\ ~StreamDone /\ part \in unsent
  /\ unsent' = IF unsent = {part} THEN AllParts(sidx + 1) ELSE unsent \ {part}
  /\ sidx' = IF unsent = {part} THEN sidx + 1 ELSE sidx
  /\ UNCHANGED <<stream, num_parts>>
  /\ LET r == ProcessPacketResult(StreamPacket(part, valid)) IN
       /\ fault => (recv_state = "RECEIVER_START" /\ r.nullDeref)
       /\ IF recv_state # "RECEIVER_START"
            THEN /\ rpc' = "top"
                 /\ UNCHANGED <<queueVars, asmVars, wpc>>
            ELSE IF fault
            THEN /\ crashed' = TRUE
                 /\ UNCHANGED <<queueVars, profile_ptr, last_profile_source,
                                last_profile_timestamp,
                                packets_received_for_profile, rpc, wpc>>
            ELSE /\ circ_buffer' = r.buf
                 /\ produced' = produced + r.pushes
                 /\ profile_ptr' = r.ptr
                 /\ last_profile_source' = r.src
                 /\ last_profile_timestamp' = r.ts
                 /\ packets_received_for_profile' = r.cnt
                 /\ wpc' = IF r.pushes > 0 THEN Notified(wpc) ELSE wpc
                 /\ rpc' = "top"
                 /\ UNCHANGED <<observed, pops, crashed>>
  /\ UNCHANGED <<impl, recv_state, is_data_available_condition_enabled, ctl>>
  /\ UNCHANGED <<w_count, deadline_passed, elapsed_expired, w_ret, waits>>
  /\ UNCHANGED <<sessionVars, senderVars, apiVars, lifeVars>>

(* ... or a status message: SetStatusMessage / PushStatus store it and     *)
(* notify_all on the consumers' condition variable.                        *)
ReceiveMain_Status ==
  /\ ~crashed /\ rpc = "select"
  /\ rpc' = "top"
  /\ wpc' = IF recv_state = "RECEIVER_START" THEN Notified(wpc) ELSE wpc
  /\ UNCHANGED <<impl, recv_state, is_data_available_condition_enabled, ctl>>
  /\ UNCHANGED <<w_count, deadline_passed, elapsed_expired, w_ret, waits>>
  /\ UNCHANGED <<queueVars, asmVars, streamVars, sessionVars, senderVars, apiVars, lifeVars>>

(* ScanHeadReceiver::Start / ScanHead::ReceiveStart.                       *)
(* Both reset the assembler and enable the wait; ReceiveStart also clears  *)
(* the ring.  Shared notifies data_available (EnableWaitUntilAvailable)    *)
(* and sync; ScanHead notifies m_thread_sync.                              *)
ReceiverStart ==
  /\ ~crashed /\ ctl < MaxControl /\ shutdown_pc = "none"
  /\ ctl' = ctl + 1
  /\ profile_ptr' = NullProfile
  /\ last_profile_source' = 0
  /\ last_profile_timestamp' = 0
  /\ recv_state' = "RECEIVER_START"
  /\ is_data_available_condition_enabled' = TRUE
  /\ circ_buffer' = IF impl = "ScanHead" THEN <<>> ELSE circ_buffer
  /\ wpc' = Notified(wpc)
  /\ rpc' = Unparked(rpc)
  /\ start_pc' = "idle"
  /\ UNCHANGED <<impl, produced, observed, pops, packets_received_for_profile,
                 crashed, shutdown_pc>>
  /\ UNCHANGED <<w_count, deadline_passed, elapsed_expired, w_ret, waits>>
  /\ UNCHANGED <<streamVars, sessionVars, senderVars, apiVars>>

(* ScanHeadReceiver::Stop / ScanHead::ReceiveStop.                         *)
(* Shared notifies sync only; ScanHead notifies m_thread_sync, on which    *)
(* consumers wait too.                                                     *)
ReceiverStop ==
  /\ ~crashed /\ ctl < MaxControl /\ shutdown_pc = "none" /\ start_pc = "idle"
  /\ ctl' = ctl + 1
  /\ recv_state' = "RECEIVER_STOP"
  /\ rpc' = Unparked(rpc)
  /\ wpc' = IF impl = "ScanHead" THEN Notified(wpc) ELSE wpc
  /\ UNCHANGED <<impl, is_data_available_condition_enabled>>
  /\ UNCHANGED <<w_count, deadline_passed, elapsed_expired, w_ret, waits>>
  /\ UNCHANGED <<queueVars, asmVars, streamVars, sessionVars, senderVars, apiVars, lifeVars>>

(* ScanHead::Flush, called by ScanManager::StartScanning for each head     *)
(* right before receiver->Start(): "Flushes all profiles from the internal *)
(* buffer".  The receive thread may run between the two calls.             *)
Flush ==
  /\ ~crashed /\ impl = "Shared" /\ start_pc = "idle"
  /\ ctl < MaxControl /\ shutdown_pc = "none"
  /\ circ_buffer' = <<>>
  /\ start_pc' = "flushed"
  /\ UNCHANGED <<produced, observed, pops, shutdown_pc>>
  /\ UNCHANGED <<asmVars, streamVars, recvVars, waitVars, sessionVars, senderVars, apiVars>>

(* A datagram of the stream is lost on the way: UDP, no retransmission.    *)
LoseDatagram(part) ==
  /\ ~crashed /\ ~StreamDone /\ part \in unsent
  /\ unsent' = IF unsent = {part} THEN AllParts(sidx + 1) ELSE unsent \ {part}
  /\ sidx' = IF unsent = {part} THEN sidx + 1 ELSE sidx
  /\ UNCHANGED <<stream, num_parts>>
  /\ UNCHANGED <<queueVars, asmVars, recvVars, waitVars, sessionVars, senderVars, apiVars, lifeVars>>

(* select() reports a datagram that is shorter than a DatagramHeader or    *)
(* whose magic is neither kDataMagic nor kResponseMagic.                   *)
(* ScanHeadReceiver throws std::runtime_error out of the thread function,  *)
(* which ends the process (std::terminate); ScanHead continues its loop.   *)
BadDatagrams == {"Short header", "Unknown magic"}

ReceiveMain_Bad(kind) ==
  /\ ~crashed /\ rpc = "select" /\ kind \in BadDatagrams
  /\ IF recv_state = "RECEIVER_START" /\ impl = "Shared"
       THEN crashed' = TRUE /\ UNCHANGED rpc
       ELSE rpc' = "top" /\ UNCHANGED crashed
  /\ UNCHANGED <<profile_ptr, last_profile_source, last_profile_timestamp,
                 packets_received_for_profile>>
  /\ UNCHANGED <<impl, recv_state, is_data_available_condition_enabled, ctl>>
  /\ UNCHANGED <<queueVars, streamVars, waitVars, sessionVars, senderVars, apiVars, lifeVars>>

(* ScanHeadReceiver::Shutdown / ScanHead::~ScanHead up to the join: set    *)
(* the state under the lock, close the socket, notify_all.                 *)
Shutdown ==
  /\ ~crashed /\ shutdown_pc = "none" /\ start_pc = "idle"
  /\ recv_state' = "RECEIVER_SHUTDOWN"
  /\ rpc' = Unparked(rpc)
  /\ wpc' = IF impl = "ScanHead" THEN Notified(wpc) ELSE wpc
  /\ shutdown_pc' = "join"
  /\ UNCHANGED <<impl, is_data_available_condition_enabled, ctl, start_pc>>
  /\ UNCHANGED <<w_count, deadline_passed, elapsed_expired, w_ret, waits>>
  /\ UNCHANGED <<queueVars, asmVars, streamVars, sessionVars, senderVars, apiVars>>

(* receiver.join() returns once ReceiveMain has returned.                  *)
Shutdown_Join ==
  /\ ~crashed /\ shutdown_pc = "join" /\ rpc = "exited"
  /\ shutdown_pc' = "done"
  /\ UNCHANGED start_pc
  /\ UNCHANGED <<queueVars, asmVars, streamVars, recvVars, waitVars, sessionVars, senderVars, apiVars>>

(* select() reports a data packet that the network delivers out of the     *)
(* head's order: any datagram of any profile of the stream, a datagram     *)
(* that has arrived before included (UDP reorders and duplicates).         *)
(* ProcessPacket runs on it as in ReceiveMain_Data.                        *)
ReceiveMain_Datagram(i, part, fault) ==
  /\ ~crashed /\ rpc = "select"
  /\ i \in 1..Len(stream) /\ part \in 0..(num_parts[i] - 1)
  /\ produced <= MaxProfiles /\ packets_received_for_profile <= MaxFragments
  /\ UNCHANGED streamVars
  /\ LET r == ProcessPacketResult(
                [source |-> stream[i].source, timestamp |-> stream[i].timestamp,
                 num_parts |-> num_parts[i], part_num |-> part,
                 valid |-> TRUE]) IN
       /\ fault => (recv_state = "RECEIVER_START" /\ r.nullDeref)
       /\ IF recv_state # "RECEIVER_START"
            THEN /\ rpc' = "top"
                 /\ UNCHANGED <<queueVars, asmVars, wpc>>
            ELSE IF fault
            THEN /\ crashed' = TRUE
                 /\ UNCHANGED <<queueVars, profile_ptr, last_profile_source,
                                last_profile_timestamp,
                                packets_received_for_profile, rpc, wpc>>
            ELSE /\ circ_buffer' = r.buf
                 /\ produced' = produced + r.pushes
                 /\ profile_ptr' = r.ptr
                 /\ last_profile_source' = r.src
                 /\ last_profile_timestamp' = r.ts
                 /\ packets_received_for_profile' = r.cnt
                 /\ wpc' = IF r.pushes > 0 THEN Notified(wpc) ELSE wpc
                 /\ rpc' = "top"
                 /\ UNCHANGED <<observed, pops, crashed>>
  /\ UNCHANGED <<impl, recv_state, is_data_available_condition_enabled, ctl>>
  /\ UNCHANGED <<w_count, deadline_passed, elapsed_expired, w_ret, waits>>
  /\ UNCHANGED <<sessionVars, senderVars, apiVars, lifeVars>>

(***************************************************************************)
(* WaitUntilAvailableProfiles(count, timeout_us), called by a consumer.    *)
(*                                                                         *)
(* wpc: "idle"    not in the call                                          *)
(*      "check"   about to evaluate the loop condition / the predicate     *)
(*      "lock"    Shared only: condition held, about to lock and wait      *)
(*      "blocked" inside the condition wait                                *)
(*      "woken"   the wait has ended, the thread has not yet run           *)
(*                                                                         *)
(* Shared:   while (enabled && size < count && elapsed < timeout_us)       *)
(*             { unique_lock lock(data_lock); data_available.wait(lock);   *)
(*               elapsed = now - t0; }                                     *)
(*           return size;                                                  *)
(*           The condition is read without the lock and the wait has no    *)
(*           timeout.                                                      *)
(* ScanHead: unique_lock lock(m_mutex);                                    *)
(*           m_thread_sync.wait_for(lock, timeout, [size >= count]);       *)
(*           return size;                                                  *)
(***************************************************************************)
WaitUntilAvailableProfiles(count, timeout_us) ==
  /\ ~crashed /\ wpc = "idle" /\ waits < MaxWaits
  /\ waits' = waits + 1
  /\ w_count' = count
  /\ deadline_passed' = (timeout_us = 0)
  /\ elapsed_expired' = (timeout_us = 0)
  /\ wpc' = "check"
  /\ UNCHANGED w_ret
  /\ UNCHANGED <<queueVars, asmVars, streamVars, recvVars, sessionVars, senderVars, apiVars, lifeVars>>

Wait_MustBlock ==
  IF impl = "Shared"
    THEN /\ is_data_available_condition_enabled
         /\ Len(circ_buffer) < w_count
         /\ ~elapsed_expired
    ELSE /\ Len(circ_buffer) < w_count
         /\ ~deadline_passed

Wait_Check ==
  /\ ~crashed /\ wpc = "check"
  /\ IF Wait_MustBlock
       THEN /\ wpc' = IF impl = "Shared" THEN "lock" ELSE "blocked"
            /\ UNCHANGED w_ret
       ELSE /\ wpc' = "idle"
            /\ w_ret' = Len(circ_buffer)
  /\ UNCHANGED <<w_count, deadline_passed, elapsed_expired, waits>>
  /\ UNCHANGED <<queueVars, asmVars, streamVars, recvVars, sessionVars, senderVars, apiVars, lifeVars>>

(* Shared: unique_lock lock(data_lock); data_available.wait(lock).         *)
Wait_Block ==
  /\ ~crashed /\ wpc = "lock"
  /\ wpc' = "blocked"
  /\ UNCHANGED <<w_count, deadline_passed, elapsed_expired, w_ret, waits>>
  /\ UNCHANGED <<queueVars, asmVars, streamVars, recvVars, sessionVars, senderVars, apiVars, lifeVars>>

(* The wait has returned and the thread has the lock again.  Shared        *)
(* computes elapsed here; both go back to evaluating the condition.        *)
Wait_Woken ==
  /\ ~crashed /\ wpc = "woken"
  /\ wpc' = "check"
  /\ elapsed_expired' = IF impl = "Shared" THEN deadline_passed
                                           ELSE elapsed_expired
  /\ UNCHANGED <<w_count, deadline_passed, w_ret, waits>>
  /\ UNCHANGED <<queueVars, asmVars, streamVars, recvVars, sessionVars, senderVars, apiVars, lifeVars>>

(* A condition wait may return without a notification.                     *)
Wait_SpuriousWake ==
  /\ ~crashed /\ wpc = "blocked"
  /\ wpc' = "woken"
  /\ UNCHANGED <<w_count, deadline_passed, elapsed_expired, w_ret, waits>>
  /\ UNCHANGED <<queueVars, asmVars, streamVars, recvVars, sessionVars, senderVars, apiVars, lifeVars>>

(* timeout_us have passed since the call.  wait_for ends a wait at its     *)
(* deadline; condition_variable::wait has none.                            *)
TimeoutElapses ==
  /\ ~crashed /\ wpc # "idle" /\ ~deadline_passed
  /\ deadline_passed' = TRUE
  /\ wpc' = IF impl = "ScanHead" THEN Notified(wpc) ELSE wpc
  /\ UNCHANGED <<w_count, elapsed_expired, w_ret, waits>>
  /\ UNCHANGED <<queueVars, asmVars, streamVars, recvVars, sessionVars, senderVars, apiVars, lifeVars>>

(* The receive thread is in the running branch of its loop.                *)
ReceiverRunning == recv_state = "RECEIVER_START" /\ rpc \in {"top", "select"}

(* The same call, made while the receiver is running.                      *)
WaitWhileRunning(count, timeout_us) ==
  /\ ReceiverRunning
  /\ WaitUntilAvailableProfiles(count, timeout_us)

(***************************************************************************)
(* jsScanSystemStartScanning(scan_system, rate_hz, fmt)                    *)
(*   rate_hz : the rate in units of 0.1 Hz                                 *)
(*   invalid : INVALID_DOUBLE(rate_hz), i.e. rate_hz is NaN or infinite    *)
(***************************************************************************)
(* ScanManager::GetMaxScanRate.                                            *)
GetMaxScanRate == scan_rate_hz_current_max

(* ScanManager::SetScanRate: the exception it throws, "none" if none.      *)
SetScanRate_throws_NoMin(rate_hz) ==
  IF rate_hz > kPinchotConstantMaxScanRate THEN "out of range"
  ELSE IF rate_hz > scan_rate_hz_current_max THEN "exceeds max scan rate"
  ELSE "none"

SetScanRate_throws(rate_hz) ==
  IF \/ rate_hz > kPinchotConstantMaxScanRate
     \/ rate_hz < kPinchotConstantMinScanRate THEN "out of range"
  ELSE IF rate_hz > scan_rate_hz_current_max THEN "exceeds max scan rate"
  ELSE "none"

(* The exception that leaves the try block, "none" if none, and "skipped"  *)
(* where the block calls nothing that changes the manager.                 *)
jsScanSystemStartScanning_throws(rate_hz, fmt) ==
  IF rate_hz > GetMaxScanRate THEN "skipped"
  ELSE IF fmt = "JS_DATA_FORMAT_CAMERA_IMAGE_FULL" THEN "skipped"
  ELSE IF SetScanRate_throws(rate_hz) # "none" THEN SetScanRate_throws(rate_hz)
  ELSE StartScanning_throws

jsScanSystemStartScanning_ret(rate_hz, invalid, fmt) ==
  IF invalid THEN JS_ERROR_INVALID_ARGUMENT
  ELSE IF ~IsConnected THEN JS_ERROR_NOT_CONNECTED
  ELSE IF jsScanSystemStartScanning_throws(rate_hz, fmt) = "skipped"
    THEN JS_ERROR_INVALID_ARGUMENT
  ELSE IF jsScanSystemStartScanning_throws(rate_hz, fmt) # "none"
    THEN JS_ERROR_INTERNAL
  ELSE 0

jsScanSystemStartScanning(rate_hz, invalid, fmt) ==
  /\ cpc = "idle" /\ sender_pc = "none"
  /\ op' = "jsScanSystemStartScanning"
  /\ ret' = jsScanSystemStartScanning_ret(rate_hz, invalid, fmt)
  /\ IF ret' = 0
       THEN \* SetScanRate, SetRequestedDataFormat, StartScanning
            /\ exc' = "none"
            /\ scan_rate_hz' = rate_hz
            /\ data_format' = fmt
            /\ rstate' = [h \in Heads |->
                            IF h \in scanners_by_serial
                              THEN "RECEIVER_START" ELSE rstate[h]]
            /\ scan_request_packets' = scanners_by_serial
            /\ state' = "Scanning"
       ELSE /\ exc' = IF ret' = JS_ERROR_INTERNAL
                        THEN jsScanSystemStartScanning_throws(rate_hz, fmt)
                        ELSE "none"
            /\ UNCHANGED <<scan_rate_hz, data_format, rstate,
                           scan_request_packets, state>>
  /\ UNCHANGED <<scanners_by_serial, scanners_by_id, m_id, session_id, status_major, status_ts,
                 ip_address, now, cpc, cur, msg_major, msg_ts, bc_waves, time_start, timeout_ms,
                 connected, ifaces>>
  /\ UNCHANGED <<dataVars, apiVars, sockets, is_scanning, send_message, sendThreadVars,
                 scan_rate_hz_current_max>>

(***************************************************************************)
(* ScanHeadSender: the send thread (SendMain), the timer thread            *)
(* (TimerMain) and Shutdown.                                               *)
(*                                                                         *)
(* send_pc: "top"     about to read is_running at the head of the loop     *)
(*          "lock"    read true, about to lock mutex_send                  *)
(*          "waiting" inside condition_send.wait                           *)
(*          "exited"  SendMain has returned                                *)
(***************************************************************************)
(* Send(datagram, ip_address): push under mutex_send, notify_all.          *)
Send(queue, msgs) == queue \o msgs

SendNotified(pc, msgs) ==
  IF msgs # <<>> /\ pc = "waiting" THEN "top" ELSE pc

SendMain_Top ==
  /\ send_pc = "top"
  /\ send_pc' = IF is_running THEN "lock" ELSE "exited"
  /\ UNCHANGED <<is_running, sent, timer_pc, emitted, sender_pc, sockfd_open>>
  /\ UNCHANGED <<sessionVars, dataVars, apiVars, sockets, is_scanning, send_message,
                 rateVars>>

(* With the lock: wait if the queue is empty; else pop the front message   *)
(* and, unless its address is 0, sendto() it.  ok is false where sendto    *)
(* returns 0 or less: runtime_error is thrown, caught, and the loop is     *)
(* left by break.                                                          *)
SendMain_Step(ok) ==
  /\ send_pc = "lock"
  /\ IF send_message = <<>>
       THEN /\ send_pc' = "waiting"
            /\ UNCHANGED <<send_message, sent>>
       ELSE /\ send_message' = Tail(send_message)
            /\ IF Head(send_message).dst = 0
                 THEN send_pc' = "top" /\ UNCHANGED sent
               ELSE IF ok /\ sockfd_open
                 THEN send_pc' = "top" /\ sent' = Append(sent, Head(send_message))
               ELSE send_pc' = "exited" /\ UNCHANGED sent
  /\ UNCHANGED <<is_running, timer_pc, emitted, sender_pc, sockfd_open>>
  /\ UNCHANGED <<sessionVars, dataVars, apiVars, sockets, is_scanning, rateVars>>

(* A condition wait may return without a notification.                     *)
SendMain_SpuriousWake ==
  /\ send_pc = "waiting"
  /\ send_pc' = "top"
  /\ UNCHANGED <<is_running, sent, timer_pc, emitted, sender_pc, sockfd_open>>
  /\ UNCHANGED <<sessionVars, dataVars, apiVars, sockets, is_scanning, send_message,
                 rateVars>>

(* One round of TimerMain's loop.  With scan_request_mutex held: if        *)
(* scanning, the vector is not empty and scan_request_interval_ms have     *)
(* elapsed since the last round that sent, Send every cached request.      *)
TimerMain(elapsed) ==
  /\ timer_pc = "loop"
  /\ IF ~is_running
       THEN /\ timer_pc' = "exited"
            /\ UNCHANGED <<send_message, send_pc, emitted>>
     ELSE IF is_scanning /\ scan_request_packets # {} /\ elapsed
                         /\ emitted < MaxEmits
       THEN /\ send_message' =
                 Send(send_message, ToHeads(scan_request_packets, "ScanRequest"))
            /\ send_pc' =
                 SendNotified(send_pc, ToHeads(scan_request_packets, "ScanRequest"))
            /\ emitted' = emitted + 1
            /\ UNCHANGED timer_pc
     ELSE UNCHANGED <<send_message, send_pc, emitted, timer_pc>>
  /\ UNCHANGED <<is_running, sent, sender_pc, sockfd_open>>
  /\ UNCHANGED <<sessionVars, dataVars, apiVars, sockets, is_scanning, rateVars>>

(* ScanHeadSender::Shutdown up to the joins: clear both flags, notify_all  *)
(* under mutex_send, close the socket.                                     *)
SenderShutdown ==
  /\ cpc = "idle" /\ sender_pc = "none"
  /\ is_running' = FALSE
  /\ is_scanning' = FALSE
  /\ send_pc' = IF send_pc = "waiting" THEN "top" ELSE send_pc
  /\ sockfd_open' = FALSE
  /\ sender_pc' = "join_sender"
  /\ UNCHANGED <<sent, timer_pc, emitted>>
  /\ UNCHANGED <<sessionVars, dataVars, apiVars, sockets, send_message, rateVars>>

(* thread_sender.join() returns once SendMain has returned.                *)
SenderShutdown_JoinSender ==
  /\ sender_pc = "join_sender" /\ send_pc = "exited"
  /\ sender_pc' = "join_timer"
  /\ UNCHANGED <<is_running, sent, send_pc, timer_pc, emitted, sockfd_open>>
  /\ UNCHANGED <<sessionVars, dataVars, apiVars, sockets, is_scanning, send_message,
                 rateVars>>

(* thread_scan_timer.join() returns once TimerMain has returned.           *)
SenderShutdown_JoinTimer ==
  /\ sender_pc = "join_timer" /\ timer_pc = "exited"
  /\ sender_pc' = "done"
  /\ UNCHANGED <<is_running, sent, send_pc, timer_pc, emitted, sockfd_open>>
  /\ UNCHANGED <<sessionVars, dataVars, apiVars, sockets, is_scanning, send_message,
                 rateVars>>

(* StopScanning, called while the manager exists.                          *)
StopScanningAlive ==
  /\ sender_pc = "none"
  /\ StopScanning

(***************************************************************************)
(* A head's status snapshot.                                               *)
(*                                                                         *)
(* The receive thread stores a status with the head's mutex held           *)
(* (ScanHeadShared::SetStatusMessage, ScanHead::PushStatus); the copy      *)
(* assignment of the StatusMessage writes its fields one after the other,  *)
(* in an order the build chooses.  GetStatusMessage returns a copy of the  *)
(* stored message without taking the mutex.                                *)
(***************************************************************************)
StatusMessages == [major : Majors, max_scan_rate : StatusMaxScanRates]

(* StatusMessage(): the default constructed message.                       *)
NoStatus == [major |-> 0, max_scan_rate |-> 0]

(* A status datagram arrives: the mutex is taken and the first field of    *)
(* the new message is written.                                             *)
StoreStatus_Begin(msg, first) ==
  /\ status_pc = "idle" /\ status_count < MaxStatus
  /\ status_count' = status_count + 1
  /\ status_in' = msg
  /\ m_status' = [m_status EXCEPT ![first] = msg[first]]
  /\ status_pc' = "half"
  /\ UNCHANGED <<status_read, stored>>
  /\ UNCHANGED <<sessionVars, dataVars, senderVars, imageVars, serVars>>

(* The rest of the message is written and the mutex released.              *)
StoreStatus_End ==
  /\ status_pc = "half"
  /\ m_status' = status_in
  /\ stored' = stored \cup {status_in}
  /\ status_pc' = "idle"
  /\ UNCHANGED <<status_in, status_read, status_count>>
  /\ UNCHANGED <<sessionVars, dataVars, senderVars, imageVars, serVars>>

(* GetStatusMessage: return m_status / status_message; no lock is taken,   *)
(* so the call runs whatever the receive thread is doing.                  *)
GetStatusMessage ==
  /\ status_read' = m_status
  /\ UNCHANGED <<m_status, status_in, status_pc, stored, status_count>>
  /\ UNCHANGED <<sessionVars, dataVars, senderVars, imageVars, serVars>>

(***************************************************************************)
(* jsScanHeadSetConfiguration / ScanHead::SetConfiguration and             *)
(* jsScanHeadGetCameraImage.                                               *)
(*                                                                         *)
(* Of jsScanHeadConfiguration the maxima of the laser on time and of the   *)
(* camera exposure are kept; the code treats def and min as it treats max. *)
(* Rates are in units of 0.1 Hz, times in microseconds.                    *)
(***************************************************************************)
Configurations ==
  [laser_on_time_max_us :
     {0, kMinLaserOnTimeUsec, kMaxLaserOnTimeUsec, kMaxLaserOnTimeUsec + 1},
   camera_exposure_time_max_us :
     {kMinCameraExposureUsec, kMaxCameraExposureUsec,
      kMaxCameraExposureUsec + 1}]

(* ScanHead::SetConfiguration throws std::range_error.                     *)
SetConfiguration_throws(cfg) ==
  \/ cfg.camera_exposure_time_max_us > kMaxCameraExposureUsec
  \/ cfg.camera_exposure_time_max_us < kMinCameraExposureUsec
  \/ cfg.laser_on_time_max_us > kMaxLaserOnTimeUsec

jsScanHeadSetConfiguration(cfg) ==
  /\ img_pc = "idle" /\ cpc = "idle"
  /\ IF IsScanning \/ SetConfiguration_throws(cfg)
       THEN UNCHANGED m_config
       ELSE m_config' = cfg
  /\ UNCHANGED <<user_config, img_pc, img_ret, img_calls>>
  /\ UNCHANGED <<m_window, m_alignment, set_ret>>
  /\ UNCHANGED <<sessionVars, dataVars, senderVars, statusVars, serVars>>

(* The temporary configuration of an image capture.                        *)
ImageConfig(cfg, enable_lasers) ==
  IF ~enable_lasers
    THEN [cfg EXCEPT !.laser_on_time_max_us = 0]
    ELSE [cfg EXCEPT !.laser_on_time_max_us =
                        Min(cfg.laser_on_time_max_us,
                            cfg.camera_exposure_time_max_us)]

(* rate_hz = 1.0 / (num_cameras * camera_exposure_max * 1e-6), capped at   *)
(* 2.0 Hz; the quotient is rounded down to 0.1 Hz.                         *)
ImageRate(cfg) ==
  Min(kImageRateMax,
      10000000 \div (JS50WX_NUM_CAMERAS * cfg.camera_exposure_time_max_us))

(* The value the call returns before it changes anything, 0 if it goes on. *)
jsScanHeadGetCameraImage_rejects(camera) ==
  IF ~IsConnected THEN JS_ERROR_NOT_CONNECTED
  ELSE IF IsScanning THEN JS_ERROR_SCANNING
  ELSE IF camera >= JS50WX_NUM_CAMERAS THEN JS_ERROR_INVALID_ARGUMENT
  ELSE 0

(* The call up to the loop on AvailableProfiles(): the temporary           *)
(* configuration is stored, then SetScanRate, SetRequestedDataFormat and   *)
(* StartScanning(sh) (Flush, receiver Start, one scan request cached).     *)
(* An exception of SetScanRate leaves through the catch clause.            *)
jsScanHeadGetCameraImage(sh, camera, enable_lasers) ==
  /\ img_pc = "idle" /\ cpc = "idle" /\ img_calls < MaxImageCalls
  /\ sh \in scanners_by_serial
  /\ img_calls' = img_calls + 1
  /\ UNCHANGED <<m_window, m_alignment, set_ret>>
  /\ LET r == jsScanHeadGetCameraImage_rejects(camera)
         config == ImageConfig(m_config, enable_lasers)
     IN
     IF r # 0
       THEN /\ img_ret' = r
            /\ UNCHANGED <<m_config, user_config, img_pc>>
            /\ UNCHANGED <<sessionVars, dataVars, senderVars>>
     ELSE IF SetScanRate_throws(ImageRate(config)) # "none"
       THEN /\ user_config' = m_config
            /\ m_config' = config
            /\ img_ret' = JS_ERROR_INTERNAL
            /\ UNCHANGED img_pc
            /\ UNCHANGED <<sessionVars, dataVars, senderVars>>
     ELSE /\ user_config' = m_config
          /\ m_config' = config
          /\ scan_rate_hz' = ImageRate(config)
          /\ data_format' = "JS_DATA_FORMAT_CAMERA_IMAGE_FULL"
          /\ circ_buffer' = <<>>
          /\ profile_ptr' = NullProfile
          /\ recv_state' = "RECEIVER_START"
          /\ rstate' = [rstate EXCEPT ![sh] = "RECEIVER_START"]
          /\ scan_request_packets' = {sh}
          /\ state' = "Scanning"
          /\ op' = "StartScanning"
          /\ exc' = "none"
          /\ img_pc' = "wait"
          /\ UNCHANGED img_ret
          /\ UNCHANGED <<scanners_by_serial, scanners_by_id, m_id, session_id,
                         status_major, status_ts, ip_address, now, cpc, cur,
                         msg_major, msg_ts, bc_waves, time_start, timeout_ms,
                         connected, ifaces, ret>>
          /\ UNCHANGED <<produced, observed, pops, last_profile_source,
                         last_profile_timestamp, packets_received_for_profile,
                         crashed, streamVars, impl, rpc,
                         is_data_available_condition_enabled, ctl, waitVars,
                         lifeVars>>
          /\ UNCHANGED <<sockets, is_scanning, send_message, sendThreadVars,
                         scan_rate_hz_current_max>>
  /\ UNCHANGED <<statusVars, serVars>>

(* One round of  while (num_cameras > sh->AvailableProfiles()) sleep 10 ms *)
(* and, once it ends, the rest of the call: StopScanning, the user's       *)
(* configuration is stored again, GetProfiles(num_cameras) and the search  *)
(* for the profile of the camera asked for.                                *)
jsScanHeadGetCameraImage_Poll ==
  /\ img_pc = "wait"
  /\ UNCHANGED <<m_window, m_alignment, set_ret>>
  /\ IF JS50WX_NUM_CAMERAS > Len(circ_buffer)
       THEN UNCHANGED <<sessionVars, dataVars, senderVars, imageVars>>
       ELSE /\ scan_request_packets' = ClearScanRequests
            /\ state' = "Connected"
            /\ op' = "StopScanning"
            /\ exc' = "none"
            /\ m_config' = user_config
            /\ observed' = observed \o SubSeq(circ_buffer, 1, JS50WX_NUM_CAMERAS)
            /\ circ_buffer' = pop_front(circ_buffer, JS50WX_NUM_CAMERAS)
            /\ img_ret' = 0
            /\ img_pc' = "idle"
            /\ UNCHANGED <<user_config, img_calls>>
            /\ UNCHANGED <<scanners_by_serial, scanners_by_id, m_id,
                           session_id, rstate, status_major, status_ts,
                           ip_address, now, cpc, cur, msg_major, msg_ts,
                           bc_waves, time_start, timeout_ms, connected,
                           ifaces, ret>>
            /\ UNCHANGED <<produced, pops, asmVars, streamVars, recvVars,
                           waitVars, lifeVars>>
            /\ UNCHANGED senderVars
  /\ UNCHANGED <<statusVars, serVars>>

(* The head answers a camera image request: the receive thread pushes the  *)
(* image of one camera (PushProfile).  Nothing obliges the head to answer. *)
ReceiveImageProfile ==
  /\ IsScanning /\ recv_state = "RECEIVER_START"
  /\ data_format = "JS_DATA_FORMAT_CAMERA_IMAGE_FULL"
  /\ Len(circ_buffer) < JS50WX_NUM_CAMERAS
  /\ produced' = produced + 1
  /\ circ_buffer' = push_back(circ_buffer, NewProfile(produced + 1))
  /\ UNCHANGED <<observed, pops, asmVars, streamVars, recvVars, waitVars,
                 lifeVars>>
  /\ UNCHANGED <<sessionVars, senderVars, apiVars>>

(***************************************************************************)
(* Serialisation of the command messages.  A datagram is a sequence of     *)
(* bytes (0..255).                                                         *)
(***************************************************************************)
(* SerializeIntegralToBytes for uint8_t, uint16_t and (u)int32_t: the      *)
(* value in network byte order.  A negative int32_t is in two's            *)
(* complement.                                                             *)
Bytes8(v) == <<v % 256>>

Bytes16(v) == <<(v \div 256) % 256, v % 256>>

Bytes32(v) ==
  LET low == IF v < 0 THEN (v + 2147483647) + 1 ELSE v   \* the low 31 bits
      top == IF v < 0 THEN 128 ELSE 0
  IN  <<top + (low \div 16777216), (low \div 65536) % 256,
        (low \div 256) % 256, low % 256>>

RECURSIVE Concat(_)
Concat(seqs) == IF seqs = <<>> THEN <<>> ELSE Head(seqs) \o Concat(Tail(seqs))

(* SetWindowMessage::Serialize: message_size is computed with              *)
(* constraint_size = 3 * sizeof(int32_t), and pushed as one byte.          *)
SetWindowMessage_Serialize(msg) ==
  LET constraint_size == 3 * 4
      message_size == Len(msg.constraints) * constraint_size + 4 * 1 + 4
      \* the points of one WindowConstraint, as the loop writes them
      ConstraintBytes(c) ==
        Bytes32(c.x1) \o Bytes32(c.y1) \o Bytes32(c.x2) \o Bytes32(c.y2)
  IN  Bytes16(kCommandMagic) \o Bytes8(message_size)
        \o Bytes8(UdpPacketType_SetWindow) \o Bytes8(msg.camera)
        \o <<0, 0, 0>>
        \o Concat([i \in 1..Len(msg.constraints) |->
                     ConstraintBytes(msg.constraints[i])])

(* The number of bits set in a data-type mask.                             *)
RECURSIVE NumTypes(_)
NumTypes(types) ==
  IF types = 0 THEN 0 ELSE (types % 2) + NumTypes(types \div 2)

(* ScanRequest::Length.                                                    *)
Length(req) == 74 + Len(req.steps) * 2

(* ScanRequest::Serialize(requestSequence).                                *)
ScanRequest_Serialize(req, requestSequence) ==
  Bytes16(kCommandMagic) \o Bytes8(Length(req))
    \o Bytes8(UdpPacketType_StartScanning)
    \o Bytes32(req.clientAddress) \o Bytes16(req.clientPort)
    \o Bytes8(requestSequence) \o Bytes8(req.scan_head_id)
    \o Bytes8(0) \o Bytes8(0)            \* camera_id, laser_id
    \o Bytes8(0) \o Bytes8(0)            \* DEPRECATED_DO_NOT_USE, flags
    \o Bytes32(req.laser_on_time_max_us)           \* minimumLaserExposure
    \o Bytes32(req.laser_on_time_max_us)           \* defaultLaserExposure
    \o Bytes32(req.laser_on_time_max_us)           \* maximumLaserExposure
    \o Bytes32(req.camera_exposure_time_max_us)    \* minimumCameraExposure
    \o Bytes32(req.camera_exposure_time_max_us)    \* defaultCameraExposure
    \o Bytes32(req.camera_exposure_time_max_us)    \* maximumCameraExposure
    \o Bytes32(0) \o Bytes32(0) \o Bytes32(0)      \* the three thresholds
    \o Bytes32(50)                                 \* averageImageIntensity
    \o Bytes32(req.scanInterval) \o Bytes32(0)     \* scanOffset
    \o Bytes32(req.numberOfScans)
    \o Bytes16(req.dataTypes) \o Bytes16(0) \o Bytes16(1455)
    \o Concat([i \in 1..Len(req.steps) |-> Bytes16(req.steps[i])])

(* The set-window messages: a camera and up to MaxConstraints constraints  *)
(* with corners among a few points (1/1000 inch).                          *)
RECURSIVE SeqsUpTo(_, _)
SeqsUpTo(S, n) ==
  IF n = 0 THEN {<<>>}
  ELSE SeqsUpTo(S, n - 1) \cup
       {Append(s, e) : s \in {t \in SeqsUpTo(S, n - 1) : Len(t) = n - 1}, e \in S}

SetWindowMessages ==
  LET Coordinates == {-1, 1000}
      WindowConstraints ==
        [x1 : Coordinates, y1 : {0}, x2 : {1000}, y2 : Coordinates]
  IN  [kind : {"SetWindow"}, camera : 0..(JS50WX_NUM_CAMERAS - 1),
       constraints : SeqsUpTo(WindowConstraints, MaxConstraints)]

(* The scan requests: ScanRequest(format, ...) and SetDataTypesAndSteps    *)
(* keep one step per bit set in dataTypes.                                 *)
ScanRequests ==
  {[kind |-> "ScanRequest", clientAddress |-> 0, clientPort |-> port,
    scan_head_id |-> id, laser_on_time_max_us |-> cfg.laser_on_time_max_us,
    camera_exposure_time_max_us |-> cfg.camera_exposure_time_max_us,
    scanInterval |-> 500000, numberOfScans |-> 1000000,
    dataTypes |-> types, steps |-> [i \in 1..NumTypes(types) |-> 1]] :
     port \in {0, 65535}, id \in 0..MaxHeadId,
     cfg \in {c \in Configurations : ~SetConfiguration_throws(c)},
     types \in 0..MaxDataTypes}

(* A command message is built and serialised.                              *)
Serialize(msg, requestSequence) ==
  /\ ser_msg' = msg
  /\ ser_out' = IF msg.kind = "SetWindow"
                  THEN SetWindowMessage_Serialize(msg)
                  ELSE ScanRequest_Serialize(msg, requestSequence)
  /\ UNCHANGED <<layout_in, layout_cols, window_sent>>
  /\ UNCHANGED <<sessionVars, dataVars, senderVars, statusVars, imageVars>>

(***************************************************************************)
(* The layout of a profile's fragments.                                    *)
(*                                                                         *)
(* DataPacket::DataPacket computes, for a processed data type, the number  *)
(* of values a fragment carries from the header's columns, the step of the *)
(* type and the fragment's position; ProcessPacket writes the values of a  *)
(* fragment at the columns idx = start_column + datagram_position * step,  *)
(* idx += number_datagrams * step.                                         *)
(***************************************************************************)
num_vals_NoRemainder(num_cols, step, number_datagrams, datagram_position) ==
  num_cols \div (number_datagrams * step)

(* layout.num_vals                                                         *)
num_vals(num_cols, step, number_datagrams, datagram_position) ==
  (num_cols \div (number_datagrams * step))
    + (IF ((num_cols \div step) % number_datagrams) > datagram_position
         THEN 1 ELSE 0)

(* Every fragment of a profile with these header fields is processed: the  *)
(* columns InsertPoint is called with, per datagram_position, in order.    *)
ProcessPacket_Insert(start_column, end_column, step, number_datagrams) ==
  /\ layout_in' = [start_column |-> start_column, end_column |-> end_column,
                   step |-> step, number_datagrams |-> number_datagrams]
  /\ layout_cols' =
       [current_packet \in 0..(number_datagrams - 1) |->
          LET num_cols == end_column - start_column + 1
              inc == number_datagrams * step
              idx == start_column + current_packet * step
          IN  [n \in 1..num_vals(num_cols, step, number_datagrams,
                                 current_packet) |-> idx + (n - 1) * inc]]
  /\ UNCHANGED <<ser_msg, ser_out, window_sent>>
  /\ UNCHANGED <<sessionVars, dataVars, senderVars, statusVars, imageVars>>

(***************************************************************************)
(* The scan window and the camera alignment.                               *)
(*                                                                         *)
(* The API takes lengths as doubles in inches; the model takes them in     *)
(* units of 1/2000 inch, so that a length need not be a whole number of    *)
(* 1/1000 inch.  Every alignment of the model has roll 0 (sin and cos of   *)
(* any other angle are inexact doubles).                                   *)
(***************************************************************************)
(* static_cast<int32_t>(v * 1000.0) of a length v given in 1/2000 inch:    *)
(* the conversion of a double to an integer truncates towards zero.        *)
static_cast_int32(v2) == IF v2 >= 0 THEN v2 \div 2 ELSE -((-v2) \div 2)

(* ScanWindow::ScanWindow, for edges the constructor does not throw on.    *)
(* A WindowConstraint is the pair of its points constraints[0..1].         *)
ScanWindow(top, bottom, left, right) ==
  LET top1000 == static_cast_int32(top)
      bottom1000 == static_cast_int32(bottom)
      left1000 == static_cast_int32(left)
      right1000 == static_cast_int32(right)
  IN  [top |-> top, bottom |-> bottom, left |-> left, right |-> right,
       m_constraints |->
         << <<[x |-> left1000, y |-> top1000], [x |-> right1000, y |-> top1000]>>,
            <<[x |-> right1000, y |-> bottom1000], [x |-> left1000, y |-> bottom1000]>>,
            <<[x |-> right1000, y |-> top1000], [x |-> right1000, y |-> bottom1000]>>,
            <<[x |-> left1000, y |-> bottom1000], [x |-> left1000, y |-> top1000]>> >>]

(* WindowConstraint::Satisfies                                             *)
Satisfies(constraints, p) ==
  ((p.x - constraints[1].x) * (constraints[2].y - constraints[1].y))
    - ((p.y - constraints[1].y) * (constraints[2].x - constraints[1].x)) >= 0

(* AlignmentParams::MillToCamera(x, y) for roll 0; yaw is 180 degrees if   *)
(* flip_x and 0 otherwise.  The shifts are in 1/2000 inch, x and y and the *)
(* result in 1/1000 inch.                                                  *)
MillToCamera(a, x, y) ==
  LET cos_neg_yaw == IF a.flip_x THEN -1 ELSE 1
      cos_neg_roll == 1
      sin_neg_roll == 0
      xc == ((2 * x - a.shift_x) * cos_neg_yaw * cos_neg_roll)
              - ((2 * y - a.shift_y) * cos_neg_yaw * sin_neg_roll)
      yc == ((2 * x - a.shift_x) * sin_neg_roll)
              + ((2 * y - a.shift_y) * cos_neg_roll)
  IN  [x |-> static_cast_int32(xc), y |-> static_cast_int32(yc)]

(* jsScanHeadIsConnected: the manager is Connected and the head's status   *)
(* carries a time other than 0 (a status has been stored).                 *)
jsScanHeadIsConnected(sh) == IsConnected /\ status_ts[sh] # 0

(* jsScanHeadSetAlignment(scan_head, 0.0, shift_x, shift_y,                *)
(* is_cable_downstream)                                                    *)
jsScanHeadSetAlignment(sh, shift_x, shift_y, is_cable_downstream) ==
  /\ sh \in scanners_by_serial
  /\ img_pc = "idle" /\ cpc = "idle"
  /\ IF jsScanHeadIsConnected(sh)
       THEN /\ set_ret' = JS_ERROR_CONNECTED
            /\ UNCHANGED m_alignment
       ELSE /\ set_ret' = 0
            /\ m_alignment' = [shift_x |-> shift_x, shift_y |-> shift_y,
                               flip_x |-> is_cable_downstream]
  /\ UNCHANGED <<m_config, user_config, img_pc, img_ret, img_calls, m_window>>
  /\ UNCHANGED <<sessionVars, dataVars, senderVars, statusVars, serVars>>

(* jsScanHeadSetWindowRectangular                                          *)
jsScanHeadSetWindowRectangular(sh, window_top, window_bottom, window_left, window_right) ==
  /\ sh \in scanners_by_serial
  /\ img_pc = "idle" /\ cpc = "idle"
  /\ IF jsScanHeadIsConnected(sh)
       THEN /\ set_ret' = JS_ERROR_CONNECTED
            /\ UNCHANGED m_window
     ELSE IF window_top <= window_bottom \/ window_right <= window_left
       THEN /\ set_ret' = JS_ERROR_INVALID_ARGUMENT    \* std::range_error
            /\ UNCHANGED m_window
     ELSE /\ set_ret' = 0
          /\ m_window' = ScanWindow(window_top, window_bottom, window_left,
                                    window_right)
  /\ UNCHANGED <<m_config, user_config, img_pc, img_ret, img_calls,
                 m_alignment>>
  /\ UNCHANGED <<sessionVars, dataVars, senderVars, statusVars, serVars>>

(* ScanManager::Connect, the window of one camera of the head: every       *)
(* constraint of the head's window is converted to the camera's            *)
(* coordinates and added to the SetWindowMessage, its points swapped if    *)
(* the alignment flips X.                                                  *)
Connect_SetWindow ==
  /\ window_sent' =
       [i \in 1..Len(m_window.m_constraints) |->
          LET constraint == m_window.m_constraints[i]
              p0 == MillToCamera(m_alignment, constraint[1].x, constraint[1].y)
              p1 == MillToCamera(m_alignment, constraint[2].x, constraint[2].y)
          IN  IF m_alignment.flip_x
                THEN <<p1, p0>>
                ELSE <<p0, p1>>]
  /\ UNCHANGED <<ser_msg, ser_out, layout_in, layout_cols>>
  /\ UNCHANGED <<sessionVars, dataVars, senderVars, statusVars, imageVars>>

(***************************************************************************)
(* The session specification                                               *)
(***************************************************************************)
InitSessionVars ==
  /\ state = "Disconnected"
  /\ scanners_by_serial = {}
  /\ scanners_by_id = [i \in {} |-> 0]
  /\ m_id = [h \in {} |-> 0]
  /\ session_id = 1
  /\ rstate = [h \in Heads |-> "RECEIVER_STOP"]
  /\ status_major = [h \in Heads |-> 0]
  /\ status_ts = [h \in Heads |-> 0]
  /\ ip_address = [h \in Heads |-> 0]
  /\ now = 0
  /\ cpc = "idle"
  /\ cur = 0
  /\ msg_major = 0
  /\ msg_ts = 0
  /\ bc_waves = 0
  /\ time_start = 0
  /\ timeout_ms = 0
  /\ connected = {}
  /\ ifaces = 0
  /\ op = "none"
  /\ exc = "none"
  /\ ret = 0
  /\ scan_request_packets = {}
  /\ sockets = {}
  /\ is_running = TRUE
  /\ is_scanning = FALSE
  /\ send_message = <<>>
  /\ sent = <<>>
  /\ send_pc = "top"
  /\ timer_pc = "loop"
  /\ emitted = 0
  /\ sender_pc = "none"
  /\ sockfd_open = TRUE
  /\ scan_rate_hz = 0
  /\ scan_rate_hz_current_max = kPinchotConstantMaxScanRate
  /\ data_format = "JS_DATA_FORMAT_XY_FULL_LM_FULL"

(* A head as constructed: empty ring, receiver stopped, thread at the head *)
(* of its loop, no consumer waiting, nothing sent to it.                   *)
InitDataVars ==
  /\ circ_buffer = <<>>
  /\ produced = 0
  /\ observed = <<>>
  /\ pops = 0
  /\ profile_ptr = NullProfile
  /\ last_profile_source = 0
  /\ last_profile_timestamp = 0
  /\ packets_received_for_profile = 0
  /\ crashed = FALSE
  /\ stream = <<>>
  /\ num_parts = <<>>
  /\ sidx = 1
  /\ unsent = {}
  /\ recv_state = "RECEIVER_STOP"
  /\ rpc = "top"
  /\ is_data_available_condition_enabled = FALSE
  /\ ctl = 0
  /\ wpc = "idle"
  /\ w_count = 0
  /\ deadline_passed = FALSE
  /\ elapsed_expired = FALSE
  /\ w_ret = 0
  /\ waits = 0
  /\ start_pc = "idle"
  /\ shutdown_pc = "none"

(* No status stored, the default configuration, no call in progress.       *)
InitApiVars ==
  /\ m_status = NoStatus
  /\ status_in = NoStatus
  /\ status_pc = "idle"
  /\ status_read = NoStatus
  /\ stored = {NoStatus}
  /\ status_count = 0
  /\ m_config = [laser_on_time_max_us |-> kMaxLaserOnTimeUsec,
                 camera_exposure_time_max_us |-> kMaxCameraExposureUsec]
  /\ user_config = m_config
  /\ img_pc = "idle"
  /\ img_ret = 0
  /\ img_calls = 0
  /\ m_window = ScanWindow(60000, -60000, -60000, 60000)
  /\ m_alignment = [shift_x |-> 0, shift_y |-> 0, flip_x |-> FALSE]
  /\ set_ret = 0
  /\ ser_msg = [kind |-> "none"]
  /\ ser_out = <<>>
  /\ layout_in = [start_column |-> 0, end_column |-> 0, step |-> 0,
                   number_datagrams |-> 0]
  /\ layout_cols = <<>>
  /\ window_sent = <<>>

InitSession ==
  InitSessionVars /\ InitDataVars /\ InitApiVars /\ impl = "Shared"

NextSession ==
  \/ \E serial \in Heads : CreateScanner(serial, serial - 1)
  \/ \E timeout_s \in 0..MaxTimeoutS, bad \in {0} \cup Heads, n \in 0..MaxIfaces :
       jsScanSystemConnect(timeout_s, bad, n)
  \/ BroadcastConnect_ReadStatus
  \/ BroadcastConnect_CheckStatus
  \/ BroadcastConnect_Sleep
  \/ Connect_Return
  \/ Disconnect
  \/ StartScanning
  \/ StopScanning
  \/ \E h \in Heads, major \in Majors : SetStatusMessage(h, major)
  \/ Tick

SpecSession == InitSession /\ [][NextSession]_vars

(***************************************************************************)
(* The ring specification: a running head whose ring already holds the     *)
(* first kMaxCircularBufferSize - HeadRoom profiles produced, none popped; *)
(* complete profiles are pushed and the consumer pops, in any order.       *)
(***************************************************************************)
InitialDepth == kMaxCircularBufferSize - HeadRoom

InitQueue ==
  /\ InitSessionVars
  /\ InitApiVars
  /\ impl \in Impls
  /\ circ_buffer = [i \in 1..InitialDepth |-> NewProfile(i)]
  /\ produced = InitialDepth
  /\ observed = <<>>
  /\ pops = 0
  /\ profile_ptr = NullProfile
  /\ last_profile_source = 0
  /\ last_profile_timestamp = InitialDepth
  /\ packets_received_for_profile = 1
  /\ crashed = FALSE
  /\ stream = <<>>
  /\ num_parts = <<>>
  /\ sidx = 1
  /\ unsent = {}
  /\ recv_state = "RECEIVER_START"
  /\ rpc = "select"
  /\ is_data_available_condition_enabled = TRUE
  /\ ctl = 1
  /\ wpc = "idle"
  /\ w_count = 0
  /\ deadline_passed = FALSE
  /\ elapsed_expired = FALSE
  /\ w_ret = 0
  /\ waits = 0
  /\ start_pc = "idle"
  /\ shutdown_pc = "none"

SpecQueue == InitQueue /\
  [][
    \/ PushProfile
    \/ \E count \in 1..MaxPopCount : GetProfiles(count)
  ]_vars

(***************************************************************************)
(* The assembler specification: a head just started receives the           *)
(* datagrams of a stream of profiles, the same number for each profile,    *)
(* in any order, one profile after the other, none lost; the consumer      *)
(* pops.                                                                   *)
(***************************************************************************)
Cameras == {0, 1}

ProfileKeys(id) ==
  {[source |-> GetSourceId(id, c, 0), timestamp |-> t] :
     c \in Cameras, t \in 0..MaxTimestamp}

(* Streams of one head: timestamps do not decrease and no two profiles     *)
(* have the same (source, timestamp).                                      *)
Streams ==
  UNION {
    {s \in [1..n -> ProfileKeys(id)] :
       \A i, j \in 1..n :
         i < j => /\ s[i].timestamp <= s[j].timestamp
                  /\ s[i] # s[j]} :
    n \in 1..MaxProfiles, id \in 0..MaxHeadId}

InitAsm ==
  /\ InitSessionVars
  /\ InitApiVars
  /\ impl \in Impls
  /\ circ_buffer = <<>>
  /\ produced = 0
  /\ observed = <<>>
  /\ pops = 0
  /\ profile_ptr = NullProfile
  /\ last_profile_source = 0
  /\ last_profile_timestamp = 0
     \* ScanHeadReceiver neither initialises this field nor resets it in
     \* Start(); ScanHead constructs it as 0.
  /\ packets_received_for_profile \in
       IF impl = "Shared" THEN 0..MaxFragments ELSE {0}
  /\ crashed = FALSE
  /\ stream \in Streams
  /\ \E k \in 1..MaxFragments : num_parts = [i \in 1..Len(stream) |-> k]
  /\ sidx = 1
  /\ unsent = AllParts(1)
  /\ recv_state = "RECEIVER_START"
  /\ rpc = "top"
  /\ is_data_available_condition_enabled = TRUE
  /\ ctl = 1
  /\ wpc = "idle"
  /\ w_count = 0
  /\ deadline_passed = FALSE
  /\ elapsed_expired = FALSE
  /\ w_ret = 0
  /\ waits = 0
  /\ start_pc = "idle"
  /\ shutdown_pc = "none"

NextAsm ==
  \/ ReceiveMain_Top
  \/ ReceiveMain_SelectTimeout
  \/ \E part \in 0..(MaxFragments - 1), valid \in BOOLEAN, fault \in BOOLEAN :
       ReceiveMain_Data(part, valid, fault)
  \/ \E count \in 1..MaxPopCount : GetProfiles(count)

SpecAsm == InitAsm /\ [][NextAsm]_vars

(***************************************************************************)
(* The wait specification: a head as constructed; its receiver is started  *)
(* and stopped, the head sends single-datagram profiles and status         *)
(* messages, and a consumer waits for profiles and pops them.              *)
(***************************************************************************)
WaitStream ==
  [i \in 1..MaxProfiles |-> [source |-> GetSourceId(1, 0, 0), timestamp |-> i]]

InitWait ==
  /\ InitSessionVars
  /\ InitApiVars
  /\ impl \in Impls
  /\ circ_buffer = <<>>
  /\ produced = 0
  /\ observed = <<>>
  /\ pops = 0
  /\ profile_ptr = NullProfile
  /\ last_profile_source = 0
  /\ last_profile_timestamp = 0
  /\ packets_received_for_profile = 0
  /\ crashed = FALSE
  /\ stream = WaitStream
  /\ num_parts = [i \in 1..MaxProfiles |-> 1]
  /\ sidx = 1
  /\ unsent = {0}
  /\ recv_state = "RECEIVER_STOP"
  /\ rpc = "top"
  /\ is_data_available_condition_enabled = FALSE
  /\ ctl = 0
  /\ wpc = "idle"
  /\ w_count = 0
  /\ deadline_passed = FALSE
  /\ elapsed_expired = FALSE
  /\ w_ret = 0
  /\ waits = 0
  /\ start_pc = "idle"
  /\ shutdown_pc = "none"

NextWaitCommon ==
  \/ ReceiveMain_Top
  \/ DisableWaitUntilAvailable
  \/ ReceiveMain_Park
  \/ ReceiveMain_SpuriousWake
  \/ ReceiveMain_SelectTimeout
  \/ \E fault \in BOOLEAN : ReceiveMain_Data(0, TRUE, fault)
  \/ ReceiveMain_Status
  \/ ReceiverStart
  \/ ReceiverStop
  \/ Wait_Check
  \/ Wait_Block
  \/ Wait_Woken
  \/ Wait_SpuriousWake
  \/ TimeoutElapses
  \/ \E count \in 1..MaxPopCount : GetProfiles(count)

NextWait ==
  \/ NextWaitCommon
  \/ \E count \in 1..MaxWaitCount, timeout_us \in 0..MaxTimeoutUs :
       WaitUntilAvailableProfiles(count, timeout_us)

SpecWait == InitWait /\ [][NextWait]_vars

(* The same, with the consumer entering the wait only while the receiver   *)
(* is running.                                                             *)
SpecStop == InitWait /\
  [][
    \/ NextWaitCommon
    \/ \E count \in 1..MaxWaitCount, timeout_us \in 0..MaxTimeoutUs :
         WaitWhileRunning(count, timeout_us)
  ]_vars


(***************************************************************************)
(* The restart specification: a running head receives the datagrams of a   *)
(* stream of profiles, each profile with its own number of datagrams, of   *)
(* which any may be lost; ScanManager::StartScanning flushes the head and  *)
(* starts its receiver again; the consumer pops.                           *)
(***************************************************************************)
RestartStream ==
  [i \in 1..MaxProfiles |-> [source |-> GetSourceId(1, 0, 0), timestamp |-> i]]

InitRestart ==
  /\ InitSessionVars
  /\ InitApiVars
  /\ impl \in Impls
  /\ circ_buffer = <<>>
  /\ produced = 0
  /\ observed = <<>>
  /\ pops = 0
  /\ profile_ptr = NullProfile
  /\ last_profile_source = 0
  /\ last_profile_timestamp = 0
  /\ packets_received_for_profile = 0
  /\ crashed = FALSE
  /\ stream = RestartStream
  /\ num_parts \in [1..MaxProfiles -> 1..MaxFragments]
  /\ sidx = 1
  /\ unsent = AllParts(1)
  /\ recv_state = "RECEIVER_START"
  /\ rpc = "top"
  /\ is_data_available_condition_enabled = TRUE
  /\ ctl = 1
  /\ wpc = "idle"
  /\ w_count = 0
  /\ deadline_passed = FALSE
  /\ elapsed_expired = FALSE
  /\ w_ret = 0
  /\ waits = 0
  /\ start_pc = "idle"
  /\ shutdown_pc = "none"

NextRestart ==
  \/ ReceiveMain_Top
  \/ ReceiveMain_SelectTimeout
  \/ \E part \in 0..(MaxFragments - 1) : ReceiveMain_Data(part, TRUE, FALSE)
  \/ \E part \in 0..(MaxFragments - 1) : LoseDatagram(part)
  \/ Flush
  \/ ReceiverStart
  \/ \E count \in 1..MaxPopCount : GetProfiles(count)

SpecRestart == InitRestart /\ [][NextRestart]_vars

(***************************************************************************)
(* The life-cycle specification: a head as constructed; its receiver is    *)
(* started, stopped and shut down while the head sends single-datagram     *)
(* profiles, status messages and malformed datagrams.                      *)
(***************************************************************************)
NextLife ==
  \/ ReceiveMain_Top
  \/ DisableWaitUntilAvailable
  \/ ReceiveMain_Park
  \/ ReceiveMain_SpuriousWake
  \/ ReceiveMain_SelectTimeout
  \/ \E fault \in BOOLEAN : ReceiveMain_Data(0, TRUE, fault)
  \/ ReceiveMain_Status
  \/ \E kind \in BadDatagrams : ReceiveMain_Bad(kind)
  \/ ReceiverStart
  \/ ReceiverStop
  \/ Shutdown
  \/ Shutdown_Join

SpecLife == InitWait /\ [][NextLife]_vars

(***************************************************************************)
(* The sender specification: a system just connected to all its heads      *)
(* (the windows queued for sending, the maximum rate taken from the heads' *)
(* status); scanning is started and stopped while the send thread and the  *)
(* timer thread run, and the sender is shut down.                          *)
(***************************************************************************)
ScanRates ==
  {0, kPinchotConstantMinScanRate - 1, kPinchotConstantMinScanRate,
   10 * HeadRateHz, 10 * HeadRateHz + 1,
   kPinchotConstantMaxScanRate, kPinchotConstantMaxScanRate + 1}

InitSender ==
  /\ InitDataVars
  /\ InitApiVars
  /\ impl = "Shared"
  /\ state = "Connected"
  /\ scanners_by_serial = Heads
  /\ scanners_by_id = [i \in 0..(NumHeads - 1) |-> i + 1]
  /\ m_id = [h \in Heads |-> h - 1]
  /\ session_id = 2
  /\ rstate = [h \in Heads |-> "RECEIVER_START"]
  /\ status_major = [h \in Heads |-> API_VERSION_MAJOR]
  /\ status_ts = [h \in Heads |-> 1]
  /\ ip_address = [h \in Heads |-> h]
  /\ now = 1
  /\ cpc = "idle"
  /\ cur = NumHeads
  /\ msg_major = API_VERSION_MAJOR
  /\ msg_ts = 1
  /\ bc_waves = 1
  /\ time_start = 0
  /\ timeout_ms = 1000
  /\ connected = Heads
  /\ ifaces = 0
  /\ op = "Connect"
  /\ exc = "none"
  /\ ret = NumHeads
  /\ scan_request_packets = {}
  /\ sockets = Heads
  /\ is_running = TRUE
  /\ is_scanning = TRUE
  /\ send_message = ToHeads(Heads, "Window")
  /\ sent = <<>>
  /\ send_pc = "top"
  /\ timer_pc = "loop"
  /\ emitted = 0
  /\ sender_pc = "none"
  /\ sockfd_open = TRUE
  /\ scan_rate_hz = 0
  /\ scan_rate_hz_current_max \in StatusMaxScanRates
  /\ data_format = "JS_DATA_FORMAT_XY_FULL_LM_FULL"

NextSender ==
  \/ \E rate_hz \in ScanRates, invalid \in BOOLEAN, fmt \in DataFormats :
       jsScanSystemStartScanning(rate_hz, invalid, fmt)
  \/ StopScanningAlive
  \/ SendMain_Top
  \/ \E ok \in BOOLEAN : SendMain_Step(ok)
  \/ SendMain_SpuriousWake
  \/ \E elapsed \in BOOLEAN : TimerMain(elapsed)
  \/ SenderShutdown
  \/ SenderShutdown_JoinSender
  \/ SenderShutdown_JoinTimer

SpecSender == InitSender /\ [][NextSender]_vars

(***************************************************************************)
(* The registry specification: starting from a system just constructed or  *)
(* from a connected system of NumHeads heads, heads are created through    *)
(* the C API and removed through ScanManager in every system state.        *)
(***************************************************************************)
InitRegistry == InitSession \/ InitSender

SpecRegistry == InitRegistry /\
  [][
    \/ \E serial \in Heads, id \in 0..MaxHeadId : jsScanSystemCreateScanHead(serial, id)
    \/ \E serial \in Heads : RemoveScanner(serial)
    \/ Disconnect
    \/ StartScanning
    \/ StopScanning
    \/ \E bottom \in {0, MaxEdge} :
         jsScanHeadSetWindowRectangular(1, MaxEdge, bottom, 0, MaxEdge)
    \/ \E is_cable_downstream \in BOOLEAN :
         jsScanHeadSetAlignment(1, 1, 0, is_cable_downstream)
  ]_vars

(***************************************************************************)
(* The status specification: a head receives status datagrams while a      *)
(* consumer reads its status.                                              *)
(***************************************************************************)

InitStatus ==
  InitSessionVars /\ InitDataVars /\ InitApiVars /\ impl \in Impls

SpecStatus == InitStatus /\
  [][
    \/ \E msg \in StatusMessages, first \in {"major", "max_scan_rate"} :
         StoreStatus_Begin(msg, first)
    \/ StoreStatus_End
    \/ GetStatusMessage
  ]_vars

(***************************************************************************)
(* The image specification: a connected system of NumHeads heads whose     *)
(* statuses reported some maximum scan rate; the user configures a head    *)
(* and captures camera images from it; the head may answer or not.         *)
(***************************************************************************)
InitImage ==
  /\ InitDataVars
  /\ InitApiVars
  /\ impl = "ScanHead"
  /\ state = "Connected"
  /\ scanners_by_serial = Heads
  /\ scanners_by_id = [i \in 0..(NumHeads - 1) |-> i + 1]
  /\ m_id = [h \in Heads |-> h - 1]
  /\ session_id = 2
  /\ rstate = [h \in Heads |-> "RECEIVER_START"]
  /\ status_major = [h \in Heads |-> API_VERSION_MAJOR]
  /\ status_ts = [h \in Heads |-> 1]
  /\ ip_address = [h \in Heads |-> h]
  /\ now = 1
  /\ cpc = "idle"
  /\ cur = NumHeads
  /\ msg_major = API_VERSION_MAJOR
  /\ msg_ts = 1
  /\ bc_waves = 1
  /\ time_start = 0
  /\ timeout_ms = 1000
  /\ connected = Heads
  /\ ifaces = 0
  /\ op = "Connect"
  /\ exc = "none"
  /\ ret = NumHeads
  /\ scan_request_packets = {}
  /\ sockets = Heads
  /\ is_running = TRUE
  /\ is_scanning = TRUE
  /\ send_message = <<>>
  /\ sent = <<>>
  /\ send_pc = "top"
  /\ timer_pc = "loop"
  /\ emitted = 0
  /\ sender_pc = "none"
  /\ sockfd_open = TRUE
  /\ scan_rate_hz = 0
  /\ scan_rate_hz_current_max \in StatusMaxScanRates \cup {kImageRateMax \div 2}
  /\ data_format = "JS_DATA_FORMAT_XY_FULL_LM_FULL"

SpecImage == InitImage /\
  [][
    \/ \E cfg \in Configurations : jsScanHeadSetConfiguration(cfg)
    \/ \E camera \in 0..JS50WX_NUM_CAMERAS, enable_lasers \in BOOLEAN :
         jsScanHeadGetCameraImage(1, camera, enable_lasers)
    \/ jsScanHeadGetCameraImage_Poll
    \/ ReceiveImageProfile
    \/ Disconnect
  ]_vars

(* The thread inside jsScanHeadGetCameraImage keeps running; the head is   *)
(* under no obligation.                                                    *)
SpecImageFair == SpecImage /\ WF_vars(jsScanHeadGetCameraImage_Poll)

(***************************************************************************)
(* The serialiser specification: command messages are built and            *)
(* serialised one after the other.                                         *)
(***************************************************************************)
SpecSerialize == InitSession /\
  [][
    \/ \E msg \in SetWindowMessages : Serialize(msg, 0)
    \/ \E req \in ScanRequests, requestSequence \in {1, 255} :
         Serialize(req, requestSequence)
  ]_vars

(***************************************************************************)
(* The layout specification: the fragments of profiles of several spans,   *)
(* steps and fragment counts are processed.                                *)
(***************************************************************************)
SpecLayout ==
  InitSession /\
  [][\E start_column \in 0..2, num_cols \in 1..MaxCols, step \in 1..MaxStep,
        number_datagrams \in 1..MaxFragments :
       ProcessPacket_Insert(start_column, start_column + num_cols - 1, step,
                            number_datagrams)]_vars

(***************************************************************************)
(* The window specification: on a system of NumHeads heads that has been   *)
(* disconnected, the user sets the window and the alignment of a head, and *)
(* Connect builds the set-window message of a camera from them.            *)
(***************************************************************************)
SpecWindow ==
  InitSender /\
  [][\/ Disconnect
     \/ \E top \in 0..MaxEdge, bottom \in 0..MaxEdge, left \in 0..MaxEdge,
           right \in 0..MaxEdge :
          jsScanHeadSetWindowRectangular(1, top, bottom, left, right)
     \/ \E shift_x \in {0, 1}, is_cable_downstream \in BOOLEAN :
          jsScanHeadSetAlignment(1, shift_x, 0, is_cable_downstream)
     \/ Connect_SetWindow]_vars

(***************************************************************************)
(* The network specification: a started receiver whose head (id 1) sends   *)
(* a stream of profiles, each as the same number of datagrams; the network *)
(* delivers the datagrams in any order, some of them more than once, some  *)
(* never.                                                                  *)
(***************************************************************************)
InitNet ==
  /\ InitAsm
  /\ packets_received_for_profile = 0
  /\ impl = "ScanHead"
  /\ \A i \in 1..Len(stream) :
       /\ stream[i].source >= GetSourceId(1, 0, 0)
       /\ num_parts[i] < MaxFragments

SpecNet ==
  InitNet /\
  [][\/ ReceiveMain_Top
     \/ \E i \in 1..MaxProfiles, part \in 0..(MaxFragments - 1),
           fault \in BOOLEAN : ReceiveMain_Datagram(i, part, fault)]_vars
(***************************************************************************)
(* Properties of the session state machine                                 *)
(***************************************************************************)
ConnectCall ==
  \E timeout_s \in 0..MaxTimeoutS, bad \in {0} \cup Heads, n \in 0..MaxIfaces :
    jsScanSystemConnect(timeout_s, bad, n)

(* C1: the system state changes only along Disconnected->Connected (by     *)
(* connect), Connected->Disconnected (by disconnect), Connected->Scanning  *)
(* (by start scanning) and Scanning->Connected (by stop scanning); no step *)
(* moves it directly between Disconnected and Scanning.                    *)
C1_LegalTransitions ==
  [][state' # state =>
       <<state, state', op'>> \in
         { <<"Disconnected", "Connected", "Connect">>,
           <<"Connected", "Disconnected", "Disconnect">>,
           <<"Connected", "Scanning", "StartScanning">>,
           <<"Scanning", "Connected", "StopScanning">> }]_vars

C1_Witness ==
  state = "Connected" /\ op = "StopScanning" /\ exc = "none"

(* C2: an operation called in a state where it is illegal (connect while   *)
(* Connected or Scanning, disconnect while Disconnected or Scanning, start *)
(* scanning while Disconnected or Scanning, stop scanning while not        *)
(* Scanning) fails with a state error and leaves the state unchanged.      *)
C2_IllegalOperationFails ==
  [][ /\ (ConnectCall /\ state \in {"Connected", "Scanning"})
           => (exc' \in StateErrors /\ ret' < 0 /\ state' = state)
      /\ (Disconnect /\ state \in {"Disconnected", "Scanning"})
           => (exc' \in StateErrors /\ state' = state)
      /\ (StartScanning /\ state \in {"Disconnected", "Scanning"})
           => (exc' \in StateErrors /\ state' = state)
      /\ (StopScanning /\ state # "Scanning")
           => (exc' \in StateErrors /\ state' = state) ]_vars

C2_Witness ==
  state = "Scanning" /\ op = "Disconnect" /\ exc \in StateErrors

(* C3: with at least one head registered, a connect attempt ends in        *)
(* Connected if and only if every registered head was marked connected     *)
(* during the attempt; if some registered head has stored no status since  *)
(* the attempt began, the attempt ends in Disconnected.                    *)
ConnectAttemptEnds ==
  /\ cpc' = "idle"
  /\ \/ cpc # "idle"
     \/ ConnectCall /\ state = "Disconnected" /\ scanners_by_serial # {}

C3_ConnectedIffAllHeads ==
  [][ConnectAttemptEnds =>
        /\ state' = "Connected" <=> connected' = scanners_by_serial
        /\ (\E h \in scanners_by_serial : status_ts[h] <= time_start)
              => state' = "Disconnected" ]_vars

C3_Witness ==
  /\ cpc = "idle" /\ op = "Connect" /\ state = "Connected"
  /\ connected = scanners_by_serial /\ Cardinality(scanners_by_serial) = 2

Complete(p) == p.received = num_parts[1] /\ p.expected = num_parts[1]

(* C5: once every datagram of a stream of N profiles, each sent as K       *)
(* datagrams in any order with none lost, has been received, the consumer  *)
(* and the ring together hold exactly N profiles, and every profile the    *)
(* consumer is handed has udp_packets_received = udp_packets_expected = K; *)
(* the receiver does not die on the way.                                   *)
C5_ExactlyNCompleteProfiles ==
  /\ ~crashed
  /\ \A i \in 1..Len(observed) : Complete(observed[i])
  /\ \A i \in 1..Len(circ_buffer) : Complete(circ_buffer[i])
  /\ StreamDone => Len(observed) + Len(circ_buffer) = Len(stream)

(* C6: the ring of completed profiles never holds more than 1000 profiles, *)
(* however pushes and pops interleave.                                     *)
C6_QueueDepthAtMost1000 == Len(circ_buffer) <= 1000

C6_Witness == Len(circ_buffer) = 1000 /\ produced >= 1001 /\ pops >= 1

Max(a, b) == IF a > b THEN a ELSE b

LastObserved ==
  IF observed = <<>> THEN 0 ELSE observed[Len(observed)].timestamp

(* C7: a push on a ring holding 1000 profiles discards exactly the oldest  *)
(* one and appends the new one; so the ring always holds the most recently *)
(* pushed profiles that were not popped: those numbered from               *)
(* max(last popped, produced - 1000) + 1 to produced - without pops, the   *)
(* last 1000 produced, the earlier ones being gone.                        *)
C7_PushEvictsOldest ==
  /\ [][(produced' = produced + 1 /\ Len(circ_buffer) = 1000) =>
          /\ Len(circ_buffer') = 1000
          /\ circ_buffer'[1000] = NewProfile(produced')
          /\ \A i \in 1..999 : circ_buffer'[i] = circ_buffer[i + 1]]_vars
  /\ [](LET lo == Max(LastObserved, produced - 1000) IN
          circ_buffer = [i \in 1..(produced - lo) |-> NewProfile(lo + i)])

C7_Witness ==
  /\ pops = 0 /\ produced = 1002 /\ Len(circ_buffer) = 1000
  /\ circ_buffer[1] = NewProfile(3)

(* C8: the profiles handed to the consumer by successive GetProfiles calls *)
(* come in the order in which they were pushed, none twice: the sequence   *)
(* handed out so far is strictly increasing in push order and everything   *)
(* still in the ring was pushed after everything handed out; each call     *)
(* hands out the front of the ring.                                        *)
C8_FifoNoDuplicates ==
  /\ [](/\ \A i, j \in 1..Len(observed) :
             i < j => observed[i].timestamp < observed[j].timestamp
        /\ \A i \in 1..Len(observed), j \in 1..Len(circ_buffer) :
             observed[i].timestamp < circ_buffer[j].timestamp)
  /\ [][pops' = pops + 1 =>
          \E k \in 0..Len(circ_buffer) :
            /\ observed' = observed \o SubSeq(circ_buffer, 1, k)
            /\ circ_buffer' = SubSeq(circ_buffer, k + 1, Len(circ_buffer))]_vars

C8_Witness ==
  /\ pops >= 2 /\ Len(observed) >= 2 /\ produced > 1000
  /\ \E i \in 1..(Len(observed) - 1) :
       observed[i + 1].timestamp > observed[i].timestamp + 1

(* C9: a consumer is never left inside the condition wait of               *)
(* WaitUntilAvailableProfiles once the ring holds at least count profiles  *)
(* or timeout_us have elapsed since the call.                              *)
C9_WaitEndsWhenDue ==
  wpc = "blocked" => (Len(circ_buffer) < w_count /\ ~deadline_passed)

(* C10: once the receive thread has parked in the stopped state, no        *)
(* consumer that entered WaitUntilAvailableProfiles while the receiver was *)
(* running is still inside the condition wait.                             *)
C10_StopReleasesWaiter ==
  ~(wpc = "blocked" /\ rpc = "parked" /\ recv_state = "RECEIVER_STOP")

(***************************************************************************)
(* Properties of the assembler under loss and restart                      *)
(***************************************************************************)
SameKey(p, q) == p.source = q.source /\ p.timestamp = q.timestamp

(* C11: a profile of which a fragment was received is placed in the ring,  *)
(* complete or incomplete, and never dropped: whenever the assembler gives *)
(* up its in-flight profile, that profile is in the ring.                  *)
C11_PartialNeverDiscarded ==
  [][(/\ profile_ptr # NullProfile
      /\ (profile_ptr' = NullProfile \/ ~SameKey(profile_ptr', profile_ptr)))
       => \E i \in 1..Len(circ_buffer') :
            SameKey(circ_buffer'[i], profile_ptr)]_vars

(* C12: when a data packet of another (source, timestamp) arrives while a  *)
(* partial profile exists, the partial profile is pushed with              *)
(* udp_packets_received equal to the number of its fragments received and  *)
(* that number is strictly less than its udp_packets_expected.             *)
C12_PartialStampedBelowExpected ==
  [][(/\ \E part \in 0..(MaxFragments - 1) :
            ReceiveMain_Data(part, TRUE, FALSE)
      /\ recv_state = "RECEIVER_START"
      /\ profile_ptr # NullProfile
      /\ ~SameKey(stream[sidx], profile_ptr))
       => LET q == circ_buffer'[Len(circ_buffer) + 1] IN
            /\ Len(circ_buffer') > Len(circ_buffer)
            /\ SameKey(q, profile_ptr)
            /\ q.received = Cardinality(profile_ptr.parts)
            /\ q.received < q.expected]_vars

(* C19: when StartScanning has flushed a head and started its receiver,    *)
(* the head's ring is empty and it has no in-flight profile, so that       *)
(* nothing received before can be read afterwards.                         *)
C19_StartClearsQueueAndPartial ==
  [][(/\ ctl' = ctl + 1 /\ recv_state' = "RECEIVER_START"
      /\ impl = "Shared" => start_pc = "flushed")
       => (circ_buffer' = <<>> /\ profile_ptr' = NullProfile)]_vars

(***************************************************************************)
(* Properties of the receive thread's life cycle                           *)
(***************************************************************************)
(* C14: destroying a head completes: once Shutdown has set the state and   *)
(* notified, the receive thread is not left inside the condition wait, on  *)
(* which nobody notifies again, with Shutdown inside receiver.join().      *)
C14_DestroyCompletes == ~(shutdown_pc = "join" /\ rpc = "parked")

(* C16: a datagram that is too short or has an unknown magic is dropped:   *)
(* the receive thread goes back to the head of its loop and the process    *)
(* lives on.                                                               *)
C16_BadDatagramDropped ==
  [][(\E kind \in BadDatagrams : ReceiveMain_Bad(kind))
       => (~crashed' /\ rpc' = "top")]_vars

(***************************************************************************)
(* Properties of disconnect, the sender and start/stop scanning           *)
(***************************************************************************)
(* C13: after a successful Disconnect every registered head's receiver is  *)
(* stopped and its socket is closed.                                       *)
C13_DisconnectClosesSockets ==
  (op = "Disconnect" /\ exc = "none") =>
    \A h \in scanners_by_serial :
      rstate[h] = "RECEIVER_STOP" /\ h \notin sockets

(* C15: the sender's Shutdown completes: once it has cleared is_running    *)
(* and notified, the send thread is not left inside condition_send.wait    *)
(* with Shutdown inside thread_sender.join().                              *)
C15_SenderShutdownCompletes ==
  ~(sender_pc = "join_sender" /\ send_pc = "waiting")

(* C17: a failed send does not end the send thread: SendMain returns only  *)
(* after Shutdown has cleared is_running.                                  *)
C17_FailedSendKeepsSender == send_pc = "exited" => ~is_running

(* C18: StopScanning clears the cached scan requests, so that from its     *)
(* return until a later start the vector is empty, and a round of the      *)
(* timer that finds the vector empty hands nothing to the send queue.      *)
C18_StopClearsScanRequests ==
  /\ [](state # "Scanning" => scan_request_packets = {})
  /\ [][((\E elapsed \in BOOLEAN : TimerMain(elapsed))
          /\ scan_request_packets = {})
         => (send_message' = send_message /\ emitted' = emitted)]_vars

C18_Witness ==
  /\ op = "StopScanning" /\ exc = "none" /\ state = "Connected"
  /\ scan_request_packets = {} /\ emitted >= 1
  /\ is_running /\ is_scanning /\ timer_pc = "loop"

C21_ConnectedOnFreshStatus ==
  [][(BroadcastConnect_CheckStatus /\ cur \in connected' /\ cur \notin connected)
        => msg_ts >= time_start]_vars

(* C23: every broadcast socket a connect attempt opened is closed by the   *)
(* time the attempt ends, however it ends.                                 *)
C23_BroadcastSocketsClosed ==
  cpc = "idle" => ifaces = 0

(* C24: every poll wave that follows the sleep of an attempt not yet       *)
(* complete sends the BroadcastConnect messages again.                     *)
C24_EveryWaveEmits ==
  [][(BroadcastConnect_Sleep /\ cpc' = "read") => bc_waves' = bc_waves + 1]_vars

(***************************************************************************)
(* Properties of the status snapshot                                       *)
(***************************************************************************)
(* C22: the snapshot a consumer obtains from GetStatusMessage is one whole *)
(* message that was stored (or the initial empty one), never a mixture of  *)
(* the fields of two messages.                                             *)
C22_StatusReadWhole ==
  status_read \in stored \cup {status_in}

(***************************************************************************)
(* Properties of the registry                                              *)
(***************************************************************************)
Registry == <<scanners_by_serial, scanners_by_id, m_id>>

(* C25: jsScanSystemCreateScanHead called while the system is Connected or *)
(* Scanning returns nullptr and leaves the registered heads unchanged.     *)
C25_CreateOnlyDisconnected ==
  [][\A serial \in Heads, id \in 0..MaxHeadId :
       (jsScanSystemCreateScanHead(serial, id) /\ state # "Disconnected")
         => /\ jsScanSystemCreateScanHead_ret(serial, id) = 0
            /\ Registry' = Registry]_vars

C25_Witness ==
  /\ state = "Connected" /\ op = "CreateScanner" /\ exc = "none"
  /\ scanners_by_serial # Heads

(* C26: the registered heads have pairwise distinct ids, scanners_by_id    *)
(* maps exactly these ids to their heads, and a create with a serial or an *)
(* id already registered fails and leaves the registry unchanged.          *)
C26_UniqueSerialsAndIds ==
  /\ [](/\ DOMAIN m_id = scanners_by_serial
        /\ \A s, t \in scanners_by_serial : m_id[s] = m_id[t] => s = t
        /\ DOMAIN scanners_by_id = {m_id[s] : s \in scanners_by_serial}
        /\ \A s \in scanners_by_serial : scanners_by_id[m_id[s]] = s)
  /\ [][\A serial \in Heads, id \in 0..MaxHeadId :
          (/\ jsScanSystemCreateScanHead(serial, id)
           /\ \/ serial \in scanners_by_serial
              \/ \E s \in scanners_by_serial : m_id[s] = id)
            => /\ jsScanSystemCreateScanHead_ret(serial, id) = 0
               /\ Registry' = Registry]_vars

C26_Witness ==
  /\ op = "CreateScanner"
  /\ exc = "Id is already assigned to another scanner."
  /\ Cardinality(scanners_by_serial) = 1

(***************************************************************************)
(* Properties of the image capture                                         *)
(***************************************************************************)
(* C27: when a jsScanHeadGetCameraImage call made in state Connected       *)
(* returns, the head's configuration is the one stored before the call and *)
(* the state is Connected.                                                 *)
C27_ImageRestoresConfiguration ==
  [][/\ (\E camera \in 0..JS50WX_NUM_CAMERAS, enable_lasers \in BOOLEAN :
            /\ jsScanHeadGetCameraImage(1, camera, enable_lasers)
            /\ IsConnected /\ img_pc' = "idle")
          => (m_config' = m_config /\ state' = "Connected")
     /\ (jsScanHeadGetCameraImage_Poll /\ img_pc' = "idle")
          => (m_config' = user_config /\ state' = "Connected")]_vars

(* C28: a jsScanHeadGetCameraImage call that waits for the image profiles  *)
(* returns, whether the head delivers them or not.                         *)
C28_ImageCaptureReturns ==
  (img_pc = "wait") ~> (img_pc = "idle")

(***************************************************************************)
(* Properties of the error codes                                           *)
(***************************************************************************)
(* jsScanSystemDisconnect and jsScanSystemStopScanning: the value returned *)
(* in the current state.                                                   *)
jsScanSystemDisconnect_ret ==
  IF Disconnect_throws # "none" THEN JS_ERROR_INTERNAL ELSE 0

jsScanSystemStopScanning_ret ==
  IF ~IsScanning THEN JS_ERROR_NOT_SCANNING
  ELSE IF StopScanning_throws # "none" THEN JS_ERROR_INTERNAL
  ELSE 0

(* C29: connect, disconnect, start scanning and stop scanning, called in a *)
(* state in which the call is illegal, return the error code of that       *)
(* state: JS_ERROR_NOT_CONNECTED in Disconnected, JS_ERROR_CONNECTED in    *)
(* Connected, JS_ERROR_SCANNING in Scanning, JS_ERROR_NOT_SCANNING for a   *)
(* stop outside Scanning; never JS_ERROR_INTERNAL.                         *)
StateCode ==
  IF state = "Disconnected" THEN JS_ERROR_NOT_CONNECTED
  ELSE IF state = "Connected" THEN JS_ERROR_CONNECTED
  ELSE JS_ERROR_SCANNING

C29_StateErrorCodes ==
  [][/\ (ConnectCall /\ state # "Disconnected") => ret' = StateCode
     /\ (Disconnect /\ state # "Connected")
          => jsScanSystemDisconnect_ret = StateCode
     /\ (StartScanning /\ state # "Connected")
          => \A rate_hz \in ScanRates, fmt \in DataFormats :
               jsScanSystemStartScanning_ret(rate_hz, FALSE, fmt) = StateCode
     /\ (StopScanning /\ state # "Scanning")
          => jsScanSystemStopScanning_ret = JS_ERROR_NOT_SCANNING]_vars

(***************************************************************************)
(* Properties of the serialiser                                            *)
(***************************************************************************)
(* C30: the size byte of a serialised command message, the third byte of   *)
(* its header, equals the number of bytes of the message.                  *)
C30_SizeByteIsLength ==
  ser_out # <<>> => ser_out[3] = Len(ser_out)

(***************************************************************************)
(* C31: the value counts of the fragments of a profile, summed over        *)
(* datagram_position in [0, number_datagrams), equal num_cols / step, and  *)
(* each sampled column start_column + k * step with 0 <= k < num_cols /    *)
(* step is written exactly once, by the fragment at position               *)
(* k mod number_datagrams.                                                 *)
(***************************************************************************)
C31_FragmentsCoverSampledColumns ==
  layout_in.number_datagrams # 0 =>
    LET N == layout_in.number_datagrams
        q == (layout_in.end_column - layout_in.start_column + 1)
               \div layout_in.step
        Writes(k) == {<<p, n>> \in UNION {{<<pp, nn>> : nn \in DOMAIN layout_cols[pp]}
                                            : pp \in 0..(N - 1)} :
                        layout_cols[p][n] = layout_in.start_column
                                              + k * layout_in.step}
    IN  /\ Cardinality(UNION {{<<p, n>> : n \in DOMAIN layout_cols[p]}
                                : p \in 0..(N - 1)}) = q
        /\ \A k \in 0..(q - 1) :
             /\ Cardinality(Writes(k)) = 1
             /\ \A w \in Writes(k) : w[1] = k % N

(* A profile whose sampled columns do not divide evenly among several      *)
(* fragments.                                                              *)
C31_Witness ==
  /\ layout_in.number_datagrams = 2
  /\ layout_in.step = 2
  /\ layout_in.start_column = 2
  /\ ((layout_in.end_column - layout_in.start_column + 1) \div 2) = 3
  /\ Len(layout_cols[0]) = 2 /\ Len(layout_cols[1]) = 1

(* Points in 1/1000 inch around the windows of the model.                  *)
Points == [x : -1..(MaxEdge + 1), y : -1..(MaxEdge + 1)]

(* p lies in the rectangle of the head's window, edges in 1/1000 inch.     *)
InWindow(p) ==
  /\ static_cast_int32(m_window.left) <= p.x
  /\ p.x <= static_cast_int32(m_window.right)
  /\ static_cast_int32(m_window.bottom) <= p.y
  /\ p.y <= static_cast_int32(m_window.top)

(***************************************************************************)
(* C32: for a window constructed with top > bottom and right > left, a     *)
(* point satisfies all four constraints if and only if it lies in the      *)
(* rectangle, and the constraints are the edges of the rectangle between   *)
(* its corners, each run clockwise, the first from the top-left corner.    *)
(***************************************************************************)
C32_ConstraintsAreTheRectangle ==
  LET c == m_window.m_constraints
      tl == [x |-> static_cast_int32(m_window.left),
             y |-> static_cast_int32(m_window.top)]
      tr == [x |-> static_cast_int32(m_window.right),
             y |-> static_cast_int32(m_window.top)]
      br == [x |-> static_cast_int32(m_window.right),
             y |-> static_cast_int32(m_window.bottom)]
      bl == [x |-> static_cast_int32(m_window.left),
             y |-> static_cast_int32(m_window.bottom)]
  IN  /\ Len(c) = 4
      /\ c[1][1] = tl
      /\ {c[i] : i \in 1..4} = {<<tl, tr>>, <<tr, br>>, <<br, bl>>, <<bl, tl>>}
      /\ \A p \in Points :
           (\A i \in 1..4 : Satisfies(c[i], p)) <=> InWindow(p)

(* The set-window message just built agrees with the head's window.        *)
WindowPreserved ==
  /\ \A i \in 1..Len(window_sent) :
       LET P0 == MillToCamera(m_alignment, m_window.m_constraints[i][1].x,
                              m_window.m_constraints[i][1].y)
           P1 == MillToCamera(m_alignment, m_window.m_constraints[i][2].x,
                              m_window.m_constraints[i][2].y)
       IN  window_sent[i] = IF m_alignment.flip_x THEN <<P1, P0>>
                                                  ELSE <<P0, P1>>
  /\ \A p \in Points :
       InWindow(p) <=>
         \A i \in 1..Len(window_sent) :
           Satisfies(window_sent[i], MillToCamera(m_alignment, p.x, p.y))

(***************************************************************************)
(* C33: in the window push of Connect each constraint is sent with its     *)
(* points in the order (P1, P0) if the camera's alignment flips X and      *)
(* (P0, P1) otherwise, and a point in mill coordinates is inside the       *)
(* user's window if and only if its image in camera coordinates satisfies  *)
(* every constraint sent.                                                  *)
(***************************************************************************)
C33_WindowPushPreservesInside ==
  [][Connect_SetWindow => WindowPreserved']_vars

(***************************************************************************)
(* C40: set alignment and set window are accepted only while the system    *)
(* is Disconnected; in Connected and in Scanning they are rejected and the *)
(* head's alignment and window stay as they were.                          *)
(***************************************************************************)
C40_SetOnlyWhileDisconnected ==
  [][\A top \in 0..MaxEdge, bottom \in 0..MaxEdge, shift_x \in {0, 1},
        is_cable_downstream \in BOOLEAN :
       ((\/ jsScanHeadSetWindowRectangular(1, top, bottom, 0, MaxEdge)
         \/ jsScanHeadSetAlignment(1, shift_x, 0, is_cable_downstream))
        /\ state # "Disconnected")
         => /\ set_ret' # 0
            /\ m_alignment' = m_alignment
            /\ m_window' = m_window]_vars

(***************************************************************************)
(* C34: whenever the assembler processes a fragment (writes its data,      *)
(* counts it), an in-flight profile exists for the fragment's (source,     *)
(* timestamp): also for the first packet after the receiver was started,   *)
(* a packet whose source id and timestamp are both zero included.          *)
(***************************************************************************)
C34_InFlightProfileExists ==
  [][\A part \in 0..(MaxFragments - 1), fault \in BOOLEAN :
       (ReceiveMain_Data(part, TRUE, fault) /\ recv_state = "RECEIVER_START")
         => \/ stream[sidx].source # last_profile_source
            \/ stream[sidx].timestamp # last_profile_timestamp
            \/ profile_ptr # NullProfile]_vars

(***************************************************************************)
(* C35: a profile is delivered as complete (udp_packets_received =         *)
(* udp_packets_expected) only if a fragment of every datagram_position in  *)
(* [0, number_datagrams) of it was received, duplicated fragments or not.  *)
(***************************************************************************)
C35_CompleteHasEveryFragment ==
  \A k \in 1..Len(circ_buffer) :
    (circ_buffer[k] # NullProfile
       /\ circ_buffer[k].received = circ_buffer[k].expected)
      => circ_buffer[k].parts = 0..(circ_buffer[k].expected - 1)

(***************************************************************************)
(* C36: no two profiles a head enqueues carry the same (source,            *)
(* timestamp), also when the fragments of different sources arrive         *)
(* interleaved.                                                            *)
(***************************************************************************)
C36_KeyEnqueuedOnce ==
  \A k, l \in 1..Len(circ_buffer) :
    (k # l /\ circ_buffer[k] # NullProfile)
      => ~SameKey(circ_buffer[k], circ_buffer[l])

(***************************************************************************)
(* C37: once the receiver's state is Running (RECEIVER_START) the receive  *)
(* thread leaves its Stopped-state wait: however Start's state change and  *)
(* notify_all interleave with the thread's unlocked state check and its    *)
(* wait, no thread is parked on the condition variable while the state is  *)
(* Running.                                                                *)
(***************************************************************************)
C37_RunningReceiverNotParked ==
  ~(~crashed /\ recv_state = "RECEIVER_START" /\ rpc = "parked")

(***************************************************************************)
(* C38: while the system is Disconnected and no connect is in progress,    *)
(* every head's receiver is Stopped: a connect attempt that returned       *)
(* without reaching Connected leaves no receiver Running.                  *)
(***************************************************************************)
C38_DisconnectedReceiversStopped ==
  (state = "Disconnected" /\ cpc = "idle")
    => \A h \in scanners_by_serial : rstate[h] = "RECEIVER_STOP"

(***************************************************************************)
(* C39: the status the connect poll checks the version of and takes the IP *)
(* from is the very status whose time of storage passed the freshness      *)
(* test, however the receiver's SetStatusMessage interleaves with the      *)
(* poll; so VersionCompatibilityException is thrown only for a status a    *)
(* head sent with another major version.                                   *)
(***************************************************************************)
C39_VersionCheckedOnFreshSnapshot ==
  [][(BroadcastConnect_CheckStatus /\ IsFresh(cur))
       => /\ msg_major = status_major[cur]
          /\ msg_ts = status_ts[cur]
          /\ (exc' = "VersionCompatibilityException"
                => status_major[cur] \in Majors \ {API_VERSION_MAJOR})]_vars
====
